---- MODULE Spec2Model ----
(***************************************************************************)
(* Model of the scoring engine of the trustworthy model registry:          *)
(*   - run_all_metrics (src/src/orchestrator.py): nine probe tasks on a    *)
(*     ThreadPoolExecutor(max_workers=3), the join at the end of the with  *)
(*     block, and the aggregation of the probes' locals into the record;   *)
(*   - the probes' compute methods (src/src/metrics/*.py) as functions of  *)
(*     the URL they get and of what the external service does;             *)
(*   - setup_logging (src/src/log.py), which the probes call on entry.     *)
(* Scores are counted in hundredths (100 is 1.0), latencies in ms.         *)
(***************************************************************************)
EXTENDS Integers, Sequences, FiniteSets, TLC

VARIABLES
    repo_info,       \* (code_url, dataset_url, model_url) of the request
    pc,              \* position of the thread running run_all_metrics
    queue,           \* the executor's work queue (FIFO)
    task,            \* state of each probe task
    step,            \* position of each running probe task
    locals,          \* the nonlocal score and latency variables
    ret,             \* what each probe's call did (pair, None, dict, raise)
    handlers,        \* logging root.handlers: the kind of each handler
    handlerWriters,  \* the probes that have modified root.handlers
    record,          \* the dict run_all_metrics returns
    urls,            \* phase1_probe: the URLs grade_line found on the line
    fn,              \* phase1_probe: the metric callable call_metric found
    pcN,             \* phase1_probe: position inside _call_normalized
    calls,           \* phase1_probe: how often the callable's body was entered
    forms,           \* phase1_probe: the argument form of each entry
    out,             \* phase1_probe: what grade_line stored for the metric
    input,           \* phase1_probe.main: the lines of the URL file
    lines,           \* phase1_probe.main: the list main loops over
    lineNo,          \* phase1_probe.main: index of the line of the for loop
    mainPc,          \* phase1_probe.main: position in main and grade_line
    fileNo,          \* grade_line: index of the metric file of its for loop
    ndjson,          \* grade_line: its dict out
    printed,         \* phase1_probe.main: the records written to stdout
    arg,             \* a function under study: its arguments
    result,          \* a function under study: what the call gave
    api_map,         \* services.auth: the key map API_KEYS_JSON holds
    now,             \* services.auth: time.time(), in seconds
    attempts,        \* services.auth: _attempts, the count of each key
    lockouts,        \* services.auth: _lockouts, lockout_until of each key
    th,              \* services.auth: each request thread in verify_api_key
    failures,        \* history: the 401 answers a key got since its last lock
    lockedFrom,      \* history: when the call that filled the count began
    in_memory,       \* services.rate_limit: _in_memory, (cnt, ts) of each key
    minute,          \* services.rate_limit: _now_minute()
    rl,              \* services.rate_limit: each request of a limited route
    sent,            \* history: the requests of each user in each window
    granted,         \* history: the allow calls that returned True
    overlapped,      \* history: two requests were ever in progress together
    objects,         \* S3: the checksum metadata of each model object
    manifests,       \* S3: the checksum in each model's manifest.json
    job,             \* routes_models, routes_ingest: the request in progress
    jobs,            \* the requests so far
    artifacts,       \* services.artifact_store: _ARTIFACTS, by artifact id
    lastOp,          \* routes_artifacts: the last request and its answer
    listing          \* a client that follows list_artifacts' next_offset

orchVars == <<repo_info, pc, queue, task, step, locals, ret,
              handlers, handlerWriters, record>>

probeVars == <<urls, fn, pcN, calls, forms, out>>

mainVars == <<input, lines, lineNo, mainPc, fileNo, ndjson, printed>>

fnVars == <<arg, result>>

\* Everything outside run_all_metrics and _call_normalized.
authVars == <<api_map, now, attempts, lockouts, th, failures, lockedFrom>>

rateVars == <<in_memory, minute, rl, sent, granted, overlapped>>

s3Vars == <<objects, manifests, job, jobs>>

\* The HTTP services next to the scoring engine.
storeVars == <<artifacts, lastOp, listing>>

apiVars == <<rateVars, s3Vars, storeVars>>

extVars == <<mainVars, fnVars, authVars, apiVars>>

\* Everything but the HTTP services.
baseVars == <<orchVars, probeVars, mainVars, fnVars, authVars>>

notRateVars == <<baseVars, s3Vars, storeVars>>

notS3Vars == <<baseVars, rateVars, storeVars>>

notStoreVars == <<baseVars, rateVars, s3Vars>>

vars == <<orchVars, probeVars, extVars>>

-----------------------------------------------------------------------------
(* Values *)

\* Python's None in a numeric local (outside every score and latency).
None == -9999

NoUrl == "None"
Url == "url"
UrlValues == {NoUrl, Url}

\* What a timed section of a probe measures, in ms (int((end - start) * 1000)).
MeasuredMs == 1

\* executor.submit order, orchestrator.py lines 81-89.
Probes == <<"bus", "code", "data", "license", "ramp", "size",
            "performance", "reproducibility", "reviewedness">>

ProbeSet == {Probes[i] : i \in 1..Len(Probes)}

max_workers == 3

\* The nonlocal variables each run_* closure assigns.
LocalsOf(p) ==
    CASE p = "bus" -> <<"bus_score", "bus_latency">>
      [] p = "code" -> <<"code_score", "code_latency">>
      [] p = "data" -> <<"data_score", "data_latency">>
      [] p = "license" -> <<"license_score", "license_latency">>
      [] p = "ramp" -> <<"ramp_score", "ramp_latency">>
      [] p = "size" -> <<"size_rpi", "size_jetson", "size_pc", "size_aws",
                         "size_latency">>
      [] p = "performance" -> <<"performance_score", "performance_latency">>
      [] p = "reproducibility" -> <<"reproducibility_score",
                                    "reproducibility_latency">>
      [] p = "reviewedness" -> <<"reviewedness_score", "reviewedness_latency">>

LocalNames ==
    UNION {{LocalsOf(p)[i] : i \in 1..Len(LocalsOf(p))} : p \in ProbeSet}

-----------------------------------------------------------------------------
(* What a call of a probe does *)

Pair(s, l) == [kind |-> "pair", score |-> s, latency |-> l, exc |-> "", entered |-> TRUE]
ReturnsNone == [kind |-> "none", score |-> None, latency |-> None, exc |-> "", entered |-> TRUE]
ReturnsDict == [kind |-> "dict", score |-> None, latency |-> None, exc |-> "", entered |-> TRUE]
Raises(e) == [kind |-> "raise", score |-> None, latency |-> None, exc |-> e, entered |-> TRUE]
Hangs == [kind |-> "hang", score |-> None, latency |-> None, exc |-> "", entered |-> TRUE]
\* The call expression raised before the method body was entered.
NotEntered(e) == [kind |-> "raise", score |-> None, latency |-> None, exc |-> e, entered |-> FALSE]
NotRun == [kind |-> "notrun", score |-> None, latency |-> None, exc |-> "", entered |-> FALSE]

\* What the external service does when a probe asks it.
EnvOf(p) ==
    CASE p = "bus" -> {"ok", "error"}
      [] p = "code" -> {"ok"}
      [] p = "data" -> {"ok", "error"}
      [] p = "license" -> {"ok", "error"}
      [] p = "ramp" -> {"ok", "http_error", "error", "hang"}
      [] p = "size" -> {"ok", "error"}
      [] p = "performance" -> {"ok"}
      [] p = "reproducibility" -> {"ok"}
      [] p = "reviewedness" -> {"ok", "low"}

\* BusMetric.compute: (0, 0) without a URL; 0.0 when the commit list cannot
\* be fetched or has at most one contributor; else the normalized entropy
\* (here: two contributors with equal shares).
BusMetric_compute(url, env, t) ==
    IF url = NoUrl THEN Pair(0, 0)
    ELSE IF env \in {"error", "low"} THEN Pair(0, t)
    ELSE Pair(100, t)

\* DataQualityMetric.compute: (0.0, 0) without a URL; 0.0 when the metadata
\* is missing; else the clamped rubric.
DataQualityMetric_compute(url, env, t) ==
    IF url = NoUrl THEN Pair(0, 0)
    ELSE IF env = "error" THEN Pair(0, t)
    ELSE Pair(100, t)

\* LicenseMetric.compute: url_to_repo_id and get_model_info are not guarded.
LicenseMetric_compute(url, env, t) ==
    IF url = NoUrl THEN Raises("TypeError")
    ELSE IF env = "error" THEN Raises("HfHubHTTPError")
    ELSE IF env = "low" THEN Pair(0, t)
    ELSE Pair(100, t)

\* RampMetric.compute: only requests.HTTPError is caught, and the invalid
\* download count returns a bare None; requests.get has no timeout.
RampMetric_compute(url, env, t) ==
    IF url = NoUrl THEN Raises("TypeError")
    ELSE IF env = "hang" THEN Hangs
    ELSE IF env = "error" THEN Raises("ConnectionError")
    ELSE IF env \in {"http_error", "low"} THEN ReturnsNone
    ELSE Pair(50, t)

\* SizeMetric.compute: nothing is guarded; the result is the dict of the
\* four device scores.
SizeMetric_compute(url, env, t) ==
    IF url = NoUrl THEN Raises("TypeError")
    ELSE IF env = "error" THEN Raises("HfHubHTTPError")
    ELSE ReturnsDict

\* ReviewednessMetric.compute: -1.0 when no repository is linked (also
\* when the URL is None: extract_github_repo catches the TypeError).
ReviewednessMetric_compute(url, env, t) ==
    IF url = NoUrl \/ env = "low" THEN Pair(-100, t)
    ELSE IF env = "error" THEN Pair(0, t)
    ELSE Pair(50, t)

\* PerformanceClaimMetricLLM(debug=False).compute: the class is not in
\* the source tree; it follows the probe contract of the specification.
PerformanceClaimMetricLLM_compute(url, env, t) ==
    IF url = NoUrl THEN Pair(0, 0)
    ELSE IF env = "error" THEN Pair(0, t)
    ELSE Pair(50, t)

\* The URL each run_* closure passes as the probe's url argument.
UrlFor(p, info) ==
    CASE p = "code" -> info.code_url
      [] p = "data" -> info.dataset_url
      [] OTHER -> info.model_url

\* The right-hand side of the assignment in each run_* closure.
Call(p, info, env, t) ==
    CASE p = "bus" -> BusMetric_compute(info.model_url, env, t)
      \* CodeQualityMetric(): __init__ misses its required argument name
      [] p = "code" -> NotEntered("TypeError")
      [] p = "data" -> DataQualityMetric_compute(info.dataset_url, env, t)
      [] p = "license" -> LicenseMetric_compute(info.model_url, env, t)
      [] p = "ramp" -> RampMetric_compute(info.model_url, env, t)
      [] p = "size" -> SizeMetric_compute(info.model_url, env, t)
      [] p = "performance" ->
            PerformanceClaimMetricLLM_compute(info.model_url, env, t)
      \* ReproducibilityMetric.compute(self, url) has no hf_token parameter
      [] p = "reproducibility" -> NotEntered("TypeError")
      [] p = "reviewedness" -> ReviewednessMetric_compute(info.model_url, env, t)

\* The tuple assignment: the targets are bound only when the value unpacks
\* into as many items as there are targets.
Unpack(p, r) ==
    IF r.kind = "pair" /\ Len(LocalsOf(p)) = 2 THEN r
    ELSE IF r.kind = "pair" THEN Raises("ValueError")
    ELSE IF r.kind = "none" THEN Raises("TypeError")
    ELSE IF r.kind = "dict" THEN Raises("ValueError")
    ELSE r

\* The probes whose compute starts with setup_logging().
CallsSetupLogging(p) == p \in {"bus", "license", "reviewedness"}

FirstStep(p) == IF CallsSetupLogging(p) THEN "log_reset" ELSE "compute"

Finished == {"done", "raised"}

\* phase1_probe.main is not running.
MainIdle ==
    /\ input = <<>>
    /\ lines = <<>>
    /\ lineNo = 0
    /\ mainPc = "idle"
    /\ fileNo = 0
    /\ ndjson = <<>>
    /\ printed = <<>>

\* No function is under study.
FnIdle ==
    /\ arg = [f |-> "none"]
    /\ result = [set |-> FALSE]

\* services.auth: the keys a request can carry (test_auth.py lines 22-25).
Keys == {"wrong1", "correct"}

\* The request threads that run verify_api_key at the same time.
MaxThreads == 2

Threads == 1..MaxThreads

\* A thread that is not in verify_api_key.  status is its last answer, start
\* and end are the times its last call began and answered, seen is the
\* key's failures when the call began.
IdleThread ==
    [pc |-> "idle", key |-> "correct", count |-> 0, start |-> 0, end |-> 0,
     seen |-> 0, status |-> 0, info |-> ""]

\* No API key is configured and no key was ever verified.
AuthIdle ==
    /\ api_map = [k \in {} |-> ""]
    /\ now = 0
    /\ attempts = [k \in Keys |-> 0]
    /\ lockouts = [k \in Keys |-> 0]
    /\ th = [t \in Threads |-> IdleThread]
    /\ failures = [k \in Keys |-> 0]
    /\ lockedFrom = [k \in Keys |-> 0]

\* services.rate_limit: the users of the API keys and the limited routes.
Users == {"ore", "bob"}

Routes == {"enumerate", "download", "upload"}

\* The minute windows of a run are 0..MaxMinute.
MaxMinute == 1

Minutes == 0..MaxMinute

\* A thread that handles no request of a limited route.  phase tells the
\* allow call (the router's dependency or the route's body), cnt and ts are
\* the locals of _allow_in_memory, seq is the request's number among its
\* user's requests of the window, status its answer (200 stands for an
\* admitted request).
IdleRequest ==
    [pc |-> "idle", user |-> "ore", route |-> "enumerate", phase |-> "dep",
     cnt |-> 0, ts |-> 0, seq |-> 0, status |-> 0]

\* No request was ever rate-limited.
RateIdle ==
    /\ in_memory = [u \in Users |-> [cnt |-> 0, ts |-> 0]]
    /\ minute = 0
    /\ rl = [t \in Threads |-> IdleRequest]
    /\ sent = [u \in Users |-> [m \in Minutes |-> 0]]
    /\ granted = [u \in Users |-> [m \in Minutes |-> 0]]
    /\ overlapped = FALSE

\* S3: the names of the model files; NoSum is an absent object, manifest
\* or checksum.
FileNames == {"m.zip", "org__m.zip"}

NoSum == "none"

\* No request of routes_models or routes_ingest is in progress.  writes is
\* what the request has written to S3, sum the checksum it computed, head
\* what get_s3_object_checksum gave it, status its answer.
IdleJob ==
    [op |-> "none", pc |-> "idle", file |-> "m.zip", input |-> "none",
     sum |-> NoSum, head |-> NoSum, gate |-> "none", writes |-> <<>>,
     status |-> 0, url |-> FALSE]

\* The bucket is empty and nothing was requested.
S3Idle ==
    /\ objects = [f \in FileNames |-> NoSum]
    /\ manifests = [f \in FileNames |-> NoSum]
    /\ job = IdleJob
    /\ jobs = 0

\* services.artifact_store: the artifact ids, and the id-less entry that
\* stands for a key _ARTIFACTS lacks.
MaxIds == 2

Ids == 1..MaxIds

NoArtifact == [name |-> 0, id |-> 0, type |-> "none", url |-> <<"", 0>>]

\* The offset "" (and None) of list_artifacts; str(n) is n.
NoOffset == -1

NoListing ==
    [active |-> FALSE, queries |-> <<>>, page_size |-> 1, offset |-> NoOffset,
     pages |-> <<>>, stale |-> FALSE]

\* The registry is empty and nothing was requested.
StoreIdle ==
    /\ artifacts = [i \in Ids |-> NoArtifact]
    /\ lastOp = [op |-> "none", status |-> 0, changed |-> FALSE]
    /\ listing = NoListing

ApiIdle == RateIdle /\ S3Idle /\ StoreIdle

ExtIdle == MainIdle /\ FnIdle /\ AuthIdle /\ ApiIdle

\* phase1_probe.py is not running.
ProbeIdle ==
    /\ urls = [code_url |-> NoUrl, dataset_url |-> NoUrl, model_url |-> NoUrl]
    /\ fn = [shape |-> "url", coroutine |-> FALSE]
    /\ pcN = "idle"
    /\ calls = 0
    /\ forms = <<>>
    /\ out = [set |-> FALSE, score |-> 0, latency |-> 0]

-----------------------------------------------------------------------------
(* run_all_metrics *)

Init ==
    /\ repo_info \in [code_url : UrlValues, dataset_url : UrlValues,
                      model_url : UrlValues]
    /\ pc = "submit"
    /\ queue = <<>>
    /\ task = [p \in ProbeSet |-> "new"]
    /\ step = [p \in ProbeSet |-> "none"]
    /\ locals = [n \in LocalNames |-> None]
    /\ ret = [p \in ProbeSet |-> NotRun]
    /\ handlers = <<>>
    /\ handlerWriters = {}
    /\ record = [returned |-> FALSE]
    /\ ProbeIdle
    /\ ExtIdle

\* The nine executor.submit(run_*) calls of lines 81-89, in program order.
Submit ==
    /\ pc = "submit"
    /\ queue' = Probes
    /\ task' = [p \in ProbeSet |-> "queued"]
    /\ pc' = "join"
    /\ UNCHANGED <<repo_info, step, locals, ret, handlers,
                   handlerWriters, record,
                   probeVars, extVars>>

Running == {p \in ProbeSet : task[p] \in {"running", "hung"}}

\* A worker thread takes the oldest work item.
Start(p) ==
    /\ queue # <<>>
    /\ p = Head(queue)
    /\ Cardinality(Running) < max_workers
    /\ queue' = Tail(queue)
    /\ task' = [task EXCEPT ![p] = "running"]
    /\ step' = [step EXCEPT ![p] = FirstStep(p)]
    /\ UNCHANGED <<repo_info, pc, locals, ret, handlers,
                   handlerWriters, record,
                   probeVars, extVars>>

\* setup_logging: the old handlers are removed ...
LogReset(p) ==
    /\ task[p] = "running" /\ step[p] = "log_reset"
    /\ handlers' = <<>>
    /\ handlerWriters' = handlerWriters \cup {p}
    /\ step' = [step EXCEPT ![p] = "log_add_file"]
    /\ UNCHANGED <<repo_info, pc, queue, task, locals, ret,
                   record,
                   probeVars, extVars>>

\* ... then root.addHandler(file_handler) ...
LogAddFile(p) ==
    /\ task[p] = "running" /\ step[p] = "log_add_file"
    /\ handlers' = Append(handlers, "file")
    /\ handlerWriters' = handlerWriters \cup {p}
    /\ step' = [step EXCEPT ![p] = "log_add_stream"]
    /\ UNCHANGED <<repo_info, pc, queue, task, locals, ret,
                   record,
                   probeVars, extVars>>

\* ... then root.addHandler(stream_handler).
LogAddStream(p) ==
    /\ task[p] = "running" /\ step[p] = "log_add_stream"
    /\ handlers' = Append(handlers, "stream")
    /\ handlerWriters' = handlerWriters \cup {p}
    /\ step' = [step EXCEPT ![p] = "compute"]
    /\ UNCHANGED <<repo_info, pc, queue, task, locals, ret,
                   record,
                   probeVars, extVars>>

\* The locals after the closure's tuple assignment of pair r.
Assign(p, r) ==
    [n \in LocalNames |->
        IF n = LocalsOf(p)[1] THEN r.score
        ELSE IF n = LocalsOf(p)[2] THEN r.latency
        ELSE locals[n]]

\* The body of a run_* closure: the call and the tuple assignment. An
\* exception ends the task (the Future keeps it; nobody asks for it).
RunProbe(p) ==
    /\ task[p] = "running" /\ step[p] = "compute"
    /\ \E env \in EnvOf(p) :
        LET r == Call(p, repo_info, env, MeasuredMs)
            u == Unpack(p, r)
        IN  /\ ret' = [ret EXCEPT ![p] = r]
            /\ task' = [task EXCEPT ![p] =
                            CASE u.kind = "hang" -> "hung"
                              [] u.kind = "raise" -> "raised"
                              [] OTHER -> "done"]
            /\ locals' = IF u.kind = "pair" THEN Assign(p, u) ELSE locals
    /\ step' = [step EXCEPT ![p] = "none"]
    /\ UNCHANGED <<repo_info, pc, queue, handlers,
                   handlerWriters, record,
                   probeVars, extVars>>

\* executor.shutdown(wait=False): the with block left without waiting.
JoinReady_NoWait == TRUE

\* Leaving the with block is executor.shutdown(wait=True).
JoinReady == \A p \in ProbeSet : task[p] \in Finished

Join ==
    /\ pc = "join"
    /\ JoinReady
    /\ pc' = "aggregate"
    /\ UNCHANGED <<repo_info, queue, task, step, locals, ret,
                   handlers, handlerWriters, record,
                   probeVars, extVars>>

\* round(n / d, 2) in hundredths. The score grid keeps 2n/d away from the
\* odd integers, where the float's binary expansion decides the tie.
RoundDiv(n, d) == (2 * n + d) \div (2 * d)

\* The locals that lines 91-135 use in arithmetic, round() or int().
\* license_latency is put in the dict as it is.
NumericUse == LocalNames \ {"license_latency"}

NetScoreSum(l) ==
    l["bus_score"] + l["code_score"] + l["data_score"] + l["ramp_score"]
        + l["license_score"] + l["performance_score"]

\* net_score = (bus + code + data + ramp + license + performance) / 6
NetScore(l) == RoundDiv(NetScoreSum(l), 6)

\* The dict of lines 100-135 (the second size_score and size_score_latency
\* keys replace the first).
BuildRecord(l) ==
    [returned |-> TRUE,
     net_score |-> NetScore(l),
     ramp_up_time |-> l["ramp_score"],
     ramp_up_time_latency |-> l["ramp_latency"],
     bus_factor |-> l["bus_score"],
     bus_factor_latency |-> l["bus_latency"],
     performance_claims |-> l["performance_score"],
     performance_claims_latency |-> l["performance_latency"],
     license |-> l["license_score"],
     license_latency |-> l["license_latency"],
     size_score |-> [raspberry_pi |-> l["size_rpi"],
                     jetson_nano |-> l["size_jetson"],
                     desktop_pc |-> l["size_pc"],
                     aws_server |-> l["size_aws"]],
     size_score_latency |-> l["size_latency"],
     dataset_and_code_score |-> RoundDiv(l["code_score"] + l["data_score"], 2),
     dataset_and_code_score_latency |->
        (l["code_latency"] + l["data_latency"]) \div 2,
     dataset_quality |-> l["data_score"],
     dataset_quality_latency |-> l["data_latency"],
     code_quality |-> l["code_score"],
     code_quality_latency |-> l["code_latency"],
     reproducibility |-> l["reproducibility_score"],
     reproducibility_latency |-> l["reproducibility_latency"],
     reviewedness |-> l["reviewedness_score"],
     reviewedness_latency |-> l["reviewedness_latency"]]

\* Lines 91-135: any None operand raises TypeError out of run_all_metrics.
Aggregate ==
    /\ pc = "aggregate"
    /\ IF \E n \in NumericUse : locals[n] = None
       THEN pc' = "raised" /\ record' = record
       ELSE pc' = "returned" /\ record' = BuildRecord(locals)
    /\ UNCHANGED <<repo_info, queue, task, step, locals, ret,
                   handlers, handlerWriters,
                   probeVars, extVars>>

Next ==
    \/ Submit
    \/ \E p \in ProbeSet : Start(p)
    \/ \E p \in ProbeSet : LogReset(p)
    \/ \E p \in ProbeSet : LogAddFile(p)
    \/ \E p \in ProbeSet : LogAddStream(p)
    \/ \E p \in ProbeSet : RunProbe(p)
    \/ Join
    \/ Aggregate

Spec == Init /\ [][Next]_vars

-----------------------------------------------------------------------------
(* The aggregation of lines 91-135 as a function of the locals: the state  *)
(* after the join when every probe object returned a (score, latency)      *)
(* pair, as the doubles of test_run_all_metrics do.  A probe without its   *)
(* URL has left (0, 0).                                                    *)

ScoreGrid == {0, 50, 100}

ScoresFor(u) == IF u = NoUrl THEN {0} ELSE ScoreGrid

LatencyFor(u) == IF u = NoUrl THEN 0 ELSE MeasuredMs

AggInit ==
    /\ repo_info \in [code_url : UrlValues, dataset_url : UrlValues,
                      model_url : {Url}]
    /\ pc = "aggregate"
    /\ queue = <<>>
    /\ task = [p \in ProbeSet |-> "done"]
    /\ step = [p \in ProbeSet |-> "none"]
    /\ ret = [p \in ProbeSet |-> NotRun]
    /\ handlers = <<>>
    /\ handlerWriters = {}
    /\ record = [returned |-> FALSE]
    /\ ProbeIdle
    /\ ExtIdle
    /\ \E bus, ramp, lic, perf \in ScoreGrid :
       \E code \in ScoresFor(repo_info.code_url) :
       \E data \in ScoresFor(repo_info.dataset_url) :
       \E rev \in {-100, 50} :
          locals = [n \in LocalNames |->
              CASE n = "bus_score" -> bus
                [] n = "ramp_score" -> ramp
                [] n = "license_score" -> lic
                [] n = "performance_score" -> perf
                [] n = "code_score" -> code
                [] n = "data_score" -> data
                [] n = "reviewedness_score" -> rev
                [] n = "reproducibility_score" -> 50
                [] n \in {"size_rpi", "size_jetson", "size_pc", "size_aws"} -> 50
                [] n = "code_latency" -> LatencyFor(repo_info.code_url)
                [] n = "data_latency" -> LatencyFor(repo_info.dataset_url)
                [] OTHER -> MeasuredMs]

AggSpec == AggInit /\ [][Aggregate]_vars

-----------------------------------------------------------------------------
(* phase1_probe.py: call_metric and _call_normalized for one metric of one *)
(* input line.  The callable is an input: its signature decides which call *)
(* forms bind, and each entry of its body ends as the metric decides.      *)

\* Signatures of the metric callables (self left out):
\*   url          compute(url)                       bus, ramp, code quality
\*   url_opt      compute(url, hf_token=None)        dataset quality, performance
\*   url_opt2     compute(url, hf_token=None, profiles=None)          size
\*   url_allowed  compute(url, allowed, hf_token=None)                license
\*   allowed_only compute(allowed)                   a pure keyword API
Shapes == {"url", "url_opt", "url_opt2", "url_allowed", "allowed_only"}

\* sig.parameters holds a parameter named allowed.
wants_allowed(f) == f.shape \in {"url_allowed", "allowed_only"}

\* kwargs is not empty (no metric has an *_id parameter).
HasKwargs(f) == wants_allowed(f)

\* Whether Python binds the call of form: "kw" fn(**kwargs),
\* "three" fn(model_url, code_url, dataset_url, **kwargs),
\* "one" fn(best, **kwargs), "dict" fn({...}, **kwargs).
Binds(f, form) ==
    CASE form = "kw" -> f.shape = "allowed_only"
      [] form = "three" -> f.shape = "url_opt2"
      [] OTHER -> f.shape # "allowed_only"

\* How an entry of the metric's body ends.
BodyOutcomes == {"pair", "scalar", "none", "TypeError", "Error", "hang"}

Returning == {"pair", "scalar", "none"}

\* best = code_url or model_url or dataset_url
best(u) ==
    IF u.code_url # NoUrl THEN "code_url"
    ELSE IF u.model_url # NoUrl THEN "model_url"
    ELSE IF u.dataset_url # NoUrl THEN "dataset_url"
    ELSE NoUrl

\* What the body receives as its first positional argument.
FirstArg(form, u) ==
    CASE form = "three" -> IF u.model_url = NoUrl THEN NoUrl ELSE "model_url"
      [] form = "one" -> best(u)
      [] form = "dict" -> "dict"
      [] OTHER -> "none"

\* clamp01: float(x) fails for None, which gives 0.0.
clamp01(x) ==
    IF x = None THEN 0 ELSE IF x < 0 THEN 0 ELSE IF x > 100 THEN 100 ELSE x

\* The (score, latency) _call_normalized returns for a returning body:
\* a 2-tuple is taken apart, anything else is paired with the measured time.
Normalized(b) ==
    CASE b = "pair" -> <<50, MeasuredMs>>
      [] b = "scalar" -> <<50, MeasuredMs>>
      [] OTHER -> <<None, MeasuredMs>>

\* grade_line lines 294-306: out[key] = clamp01(score), latency int(lat).
Stored(sl) == [set |-> TRUE, score |-> clamp01(sl[1]), latency |-> sl[2]]

\* call_metric's except branches: (0.0, 0).
Failed == <<0, 0>>

\* run_all_metrics is not running.
OrchIdle ==
    /\ repo_info = [code_url |-> NoUrl, dataset_url |-> NoUrl, model_url |-> NoUrl]
    /\ pc = "idle"
    /\ queue = <<>>
    /\ task = [p \in ProbeSet |-> "new"]
    /\ step = [p \in ProbeSet |-> "none"]
    /\ locals = [n \in LocalNames |-> None]
    /\ ret = [p \in ProbeSet |-> NotRun]
    /\ handlers = <<>>
    /\ handlerWriters = {}
    /\ record = [returned |-> FALSE]

ProbeInit ==
    /\ urls \in [code_url : UrlValues, dataset_url : UrlValues,
                 model_url : UrlValues]
    /\ fn \in [shape : Shapes, coroutine : BOOLEAN]
    /\ pcN = IF HasKwargs(fn) THEN "kw_first" ELSE "pos3"
    /\ calls = 0
    /\ forms = <<>>
    /\ out = [set |-> FALSE, score |-> 0, latency |-> 0]
    /\ OrchIdle
    /\ ExtIdle

\* The except clauses around the call of a form: which exceptions of the
\* callee make _call_normalized go on to the next form. Lines 164-167 take
\* every exception of the keyword-only attempt, lines 172-179 TypeError.
Swallowed(form) ==
    IF form = "kw_first" THEN {"TypeError", "Error"} ELSE {"TypeError"}

\* The step after a swallowed exception; fn(**kwargs) of line 180 is last.
NextForm(at) ==
    CASE at = "kw_first" -> "pos3"
      [] at = "pos3" -> "pos1"
      [] at = "pos1" -> "posdict"
      [] at = "posdict" -> "kw_last"
      [] OTHER -> "none"

FormAt(at) ==
    CASE at = "pos3" -> "three"
      [] at = "pos1" -> "one"
      [] at = "posdict" -> "dict"
      [] OTHER -> "kw"

\* One call attempt of _call_normalized at position at. A call that does
\* not bind raises TypeError without entering the body. A coroutine
\* function's body starts at the await. A body that blocks inside a
\* synchronous call holds the event loop.
Attempt(at) ==
    /\ pcN = at
    /\ IF ~Binds(fn, FormAt(at))
       THEN /\ IF NextForm(at) = "none"
               THEN pcN' = "done" /\ out' = Stored(Failed)
               ELSE pcN' = NextForm(at) /\ out' = out
            /\ UNCHANGED <<calls, forms>>
       ELSE IF fn.coroutine
       THEN /\ pcN' = IF at = "kw_first" THEN "await_kw" ELSE "await_pos"
            /\ forms' = Append(forms, FirstArg(FormAt(at), urls))
            /\ UNCHANGED <<calls, out>>
       ELSE /\ calls' = calls + 1
            /\ forms' = Append(forms, FirstArg(FormAt(at), urls))
            /\ \E b \in BodyOutcomes :
                  CASE b \in Returning ->
                          pcN' = "done" /\ out' = Stored(Normalized(b))
                    [] b = "hang" -> pcN' = "blocked" /\ out' = out
                    [] b \in Swallowed(at) /\ NextForm(at) # "none" ->
                          pcN' = NextForm(at) /\ out' = out
                    [] OTHER -> pcN' = "done" /\ out' = Stored(Failed)
    /\ UNCHANGED <<urls, fn, orchVars, extVars>>

CallKwFirst == Attempt("kw_first")
CallPos3 == Attempt("pos3")
CallPos1 == Attempt("pos1")
CallPosDict == Attempt("posdict")
CallKwLast == Attempt("kw_last")

\* res = await res inside the try of lines 155-167.
AwaitKw ==
    /\ pcN = "await_kw"
    /\ calls' = calls + 1
    /\ \E b \in BodyOutcomes :
          CASE b \in Returning -> pcN' = "done" /\ out' = Stored(Normalized(b))
            [] b = "hang" -> pcN' = "suspended" /\ out' = out
            [] OTHER -> pcN' = "pos3" /\ out' = out
    /\ UNCHANGED <<urls, fn, forms, orchVars, extVars>>

\* res = await res of line 183, outside every try of _call_normalized.
AwaitPos ==
    /\ pcN = "await_pos"
    /\ calls' = calls + 1
    /\ \E b \in BodyOutcomes :
          CASE b \in Returning -> pcN' = "done" /\ out' = Stored(Normalized(b))
            [] b = "hang" -> pcN' = "suspended" /\ out' = out
            [] OTHER -> pcN' = "done" /\ out' = Stored(Failed)
    /\ UNCHANGED <<urls, fn, forms, orchVars, extVars>>

\* asyncio.wait_for cancels the awaited coroutine after METRIC_TIMEOUT_SEC;
\* the event loop can do so only while the coroutine is suspended.
Timeout ==
    /\ pcN = "suspended"
    /\ pcN' = "done"
    /\ out' = Stored(Failed)
    /\ UNCHANGED <<urls, fn, calls, forms, orchVars, extVars>>

ProbeNext ==
    \/ CallKwFirst
    \/ CallPos3
    \/ CallPos1
    \/ CallPosDict
    \/ CallKwLast
    \/ AwaitKw
    \/ AwaitPos
    \/ Timeout

ProbeSpec == ProbeInit /\ [][ProbeNext]_vars

-----------------------------------------------------------------------------
(* phase1_probe.py: main and grade_line.  What call_metric gives for one   *)
(* metric file is an input here: a result, the (0.0, 0) of its except      *)
(* branches, or no return at all (a synchronous body that blocks holds the *)
(* event loop, see Attempt).                                               *)

MaxLines == 2

\* A line of the input after ln.strip(): empty or not.
LineKinds == {"blank", "url"}

\* sorted(METRICS_DIR.glob("*_metric.py"))
Files == <<"bus_metric", "code_quality_metric", "dataset_code_score_metric",
           "dataset_quality_metric", "license_check_metric", "license_metric",
           "performance_metric", "ramp_metric", "reproducibility_metric",
           "reviewedness_metric", "size_cost_metric", "size_metric",
           "test_bus_metric", "test_ramp_metric", "test_size_metric",
           "tree_score_metric">>

\* KEYMAP.get(stem)
KEYMAP(stem) ==
    CASE stem = "bus_metric" -> "bus_factor"
      [] stem = "code_quality_metric" -> "code_quality"
      [] stem = "dataset_code_score_metric" -> "dataset_and_code_score"
      [] stem = "dataset_quality_metric" -> "dataset_quality"
      [] stem = "license_metric" -> "license"
      [] stem = "performance_metric" -> "performance_claims"
      [] stem = "ramp_metric" -> "ramp_up_time"
      [] stem = "size_metric" -> "size_score"
      [] OTHER -> "None"

LatencyKey(key) ==
    CASE key = "bus_factor" -> "bus_factor_latency"
      [] key = "code_quality" -> "code_quality_latency"
      [] key = "dataset_and_code_score" -> "dataset_and_code_score_latency"
      [] key = "dataset_quality" -> "dataset_quality_latency"
      [] key = "license" -> "license_latency"
      [] key = "performance_claims" -> "performance_claims_latency"
      [] key = "ramp_up_time" -> "ramp_up_time_latency"
      [] key = "size_score" -> "size_score_latency"
      [] OTHER -> "None"

NdjsonKeys ==
    {"name", "category", "net_score", "net_score_latency",
     "ramp_up_time", "ramp_up_time_latency", "bus_factor", "bus_factor_latency",
     "performance_claims", "performance_claims_latency",
     "license", "license_latency", "size_score", "size_score_latency",
     "dataset_and_code_score", "dataset_and_code_score_latency",
     "dataset_quality", "dataset_quality_latency",
     "code_quality", "code_quality_latency"}

\* empty_ndjson(): every key at its default (one number stands for the
\* four equal entries of size_score).
empty_ndjson == [k \in NdjsonKeys |-> 0]

\* What happens to one graded metric file: load_mod returns None, or
\* call_metric returns a result, returns (0.0, 0), or does not return.
FileOutcomes == {"import_failed", "value", "failed", "blocked"}

MainInit ==
    /\ input \in UNION {[1..n -> LineKinds] : n \in 0..MaxLines}
    /\ lines = <<>>
    /\ lineNo = 0
    /\ mainPc = "read"
    /\ fileNo = 0
    /\ ndjson = <<>>
    /\ printed = <<>>
    /\ FnIdle
    /\ AuthIdle
    /\ ApiIdle
    /\ OrchIdle
    /\ ProbeIdle

\* main lines 333-341: an input without lines is replaced by the default URL.
ReadInput ==
    /\ mainPc = "read"
    /\ lines' = IF input = <<>> THEN <<"url">> ELSE input
    /\ lineNo' = 1
    /\ mainPc' = "loop"
    /\ UNCHANGED <<input, fileNo, ndjson, printed, fnVars, authVars, apiVars,
                   orchVars, probeVars>>

\* The head of main's for loop: blank lines are passed over; grade_line
\* starts with out = empty_ndjson().
NextLine ==
    /\ mainPc = "loop"
    /\ IF lineNo > Len(lines)
       THEN mainPc' = "done" /\ UNCHANGED <<lineNo, fileNo, ndjson>>
       ELSE IF lines[lineNo] = "blank"
       THEN lineNo' = lineNo + 1 /\ UNCHANGED <<mainPc, fileNo, ndjson>>
       ELSE /\ mainPc' = "grade"
            /\ fileNo' = 1
            /\ ndjson' = empty_ndjson
            /\ UNCHANGED lineNo
    /\ UNCHANGED <<input, lines, printed, fnVars, authVars, apiVars,
                   orchVars, probeVars>>

\* grade_line lines 294-306 for a (score, latency) of call_metric.
StoreMetric(o, key, sl) ==
    IF key \in DOMAIN o
    THEN [o EXCEPT ![key] = clamp01(sl[1]), ![LatencyKey(key)] = sl[2]]
    ELSE o

\* One pass of grade_line's for loop over the metric files.
GradeFile ==
    /\ mainPc = "grade"
    /\ fileNo <= Len(Files)
    /\ LET key == KEYMAP(Files[fileNo])
       IN  IF key = "None"
           THEN UNCHANGED <<mainPc, ndjson>>
           ELSE \E o \in FileOutcomes :
                   CASE o = "import_failed" -> UNCHANGED <<mainPc, ndjson>>
                     [] o = "value" ->
                           /\ ndjson' = StoreMetric(ndjson, key, <<50, MeasuredMs>>)
                           /\ UNCHANGED mainPc
                     [] o = "failed" ->
                           /\ ndjson' = StoreMetric(ndjson, key, Failed)
                           /\ UNCHANGED mainPc
                     [] OTHER -> mainPc' = "blocked" /\ UNCHANGED ndjson
    /\ fileNo' = fileNo + 1
    /\ UNCHANGED <<input, lines, lineNo, printed, fnVars, authVars, apiVars,
                   orchVars, probeVars>>

\* main line 353: the record goes to stdout, then the next line.
WriteRecord(rec) ==
    /\ printed' = Append(printed, [line |-> lineNo, rec |-> rec])
    /\ lineNo' = lineNo + 1
    /\ mainPc' = "loop"
    /\ UNCHANGED <<input, lines, fileNo, ndjson, fnVars, authVars, apiVars,
                   orchVars, probeVars>>

\* grade_line returns out (src/src/netscore.py does not exist).
ReturnRecord ==
    /\ mainPc = "grade"
    /\ fileNo > Len(Files)
    /\ WriteRecord(ndjson)

\* main lines 349-352: grade_line raised, result = empty_ndjson().
GradeCrash ==
    /\ mainPc = "grade"
    /\ WriteRecord(empty_ndjson)

MainNext ==
    \/ ReadInput
    \/ NextLine
    \/ GradeFile
    \/ ReturnRecord
    \/ GradeCrash

MainSpec == MainInit /\ [][MainNext]_vars

-----------------------------------------------------------------------------
(* Functions of the probes, each applied to inputs drawn from small sets.  *)

\* BusMetric: commits are the author sets of the repository's commits.
MaxCommits == 3

Authors == {"a", "b"}

\* A URL whose path has fewer than two parts.
ShortUrl == "short"

\* 1000 * math.log2(n), rounded.
Log2Milli(n) ==
    CASE n = 1 -> 0
      [] n = 2 -> 1000
      [] n = 3 -> 1585
      [] n = 4 -> 2000
      [] n = 5 -> 2322
      [] n = 6 -> 2585
      [] n = 7 -> 2807
      [] n = 8 -> 3000
      [] n = 9 -> 3170
      [] OTHER -> 3322

RECURSIVE CountBy(_, _)
\* ci[author]: the number of commits that list the author.
CountBy(commits, a) ==
    IF commits = <<>> THEN 0
    ELSE (IF a \in Head(commits) THEN 1 ELSE 0) + CountBy(Tail(commits), a)

\* get_hf_contributor_stats: (N, C, ci); (0, 0, {}) for a short URL and
\* when list_repo_commits raises.
get_hf_contributor_stats(url, fetch, commits) ==
    IF url = ShortUrl \/ fetch = "error"
    THEN [N |-> 0, C |-> 0, ci |-> [a \in {} |-> 0]]
    ELSE LET who == {a \in Authors : CountBy(commits, a) > 0}
             ci == [a \in who |-> CountBy(commits, a)]
         IN  [N |-> Cardinality(who),
              C |-> CountBy(commits, "a") + CountBy(commits, "b"),
              ci |-> ci]

RECURSIVE WeightedLogs(_, _)
\* The sum of c * log2(c) over the histogram, in thousandths.
WeightedLogs(ci, S) ==
    IF S = {} THEN 0
    ELSE LET a == CHOOSE x \in S : TRUE
         IN  ci[a] * Log2Milli(ci[a]) + WeightedLogs(ci, S \ {a})

\* A score that is the equal share 1/N of one contributor.
BusScore_Share(N, C, ci) == IF N = 0 THEN 0 ELSE 100 \div N

\* BusMetric.compute lines 87-109: 0.0 when N <= 1 or C == 0, else the
\* entropy -sum(p log2 p) = log2(C) - sum(c log2 c)/C over log2(N).
BusScore(N, C, ci) ==
    IF N <= 1 \/ C = 0 THEN 0
    ELSE LET entropy == Log2Milli(C) - (WeightedLogs(ci, DOMAIN ci) \div C)
             max_entropy == Log2Milli(N)
         IN  IF max_entropy > 0 THEN (entropy * 100) \div max_entropy ELSE 0

\* BusMetric.compute for a URL, the fetch outcome and the commit list.
BusMetric_compute_stats(url, fetch, commits, t) ==
    IF url = NoUrl THEN Pair(0, 0)
    ELSE LET st == get_hf_contributor_stats(url, fetch, commits)
         IN  Pair(BusScore(st.N, st.C, st.ci), t)

\* LicenseMetric.  A string is the sequence of its pieces; the pieces are
\* chosen so that no piece is part of another: "2.0" is <<"2", ".0">>.
NoLicense == <<"None">>

Whitespace == {" ", "\t"}

\* LICENSE_NORMALIZATION as the set of its (alias, canonical key) pairs.
LICENSE_NORMALIZATION ==
    {<< <<"mit">>, <<"mit">> >>,
     << <<"apache", "-", "2", ".0">>, <<"apache", "-", "2", ".0">> >>,
     << <<"apache", " ", "2", ".0">>, <<"apache", "-", "2", ".0">> >>,
     << <<"bsd", "-", "3", "-", "clause">>, <<"bsd", "-", "3", "-", "clause">> >>,
     << <<"bsd", " ", "3", "-", "clause">>, <<"bsd", "-", "3", "-", "clause">> >>,
     << <<"bsd", "-", "2", "-", "clause">>, <<"bsd", "-", "2", "-", "clause">> >>,
     << <<"bsd", " ", "2", "-", "clause">>, <<"bsd", "-", "2", "-", "clause">> >>,
     << <<"mpl", "-", "2", ".0">>, <<"mpl", "-", "2", ".0">> >>,
     << <<"mpl", " ", "2", ".0">>, <<"mpl", "-", "2", ".0">> >>,
     << <<"lgpl", "-", "3", ".0">>, <<"lgpl", "-", "3", ".0">> >>,
     << <<"lgpl", " ", "3", ".0">>, <<"lgpl", "-", "3", ".0">> >>,
     << <<"gpl", "-", "3", ".0">>, <<"gpl", "-", "3", ".0">> >>,
     << <<"gpl", " ", "3", ".0">>, <<"gpl", "-", "3", ".0">> >>,
     << <<"agpl", "-", "3", ".0">>, <<"agpl", "-", "3", ".0">> >>,
     << <<"agpl", " ", "3", ".0">>, <<"agpl", "-", "3", ".0">> >>,
     << <<"cc", "-", "by", "-", "4", ".0">>, <<"cc", "-", "by", "-", "4", ".0">> >>,
     << <<"cc", "-", "by", " ", "4", ".0">>, <<"cc", "-", "by", "-", "4", ".0">> >>,
     << <<"cc", "-", "by", "-", "sa", "-", "4", ".0">>,
        <<"cc", "-", "by", "-", "sa", "-", "4", ".0">> >>,
     << <<"cc", "-", "by", "-", "sa", " ", "4", ".0">>,
        <<"cc", "-", "by", "-", "sa", "-", "4", ".0">> >>,
     << <<"cc", "-", "by", "-", "nc", "-", "4", ".0">>,
        <<"cc", "-", "by", "-", "nc", "-", "4", ".0">> >>,
     << <<"cc", "-", "by", "-", "nc", " ", "4", ".0">>,
        <<"cc", "-", "by", "-", "nc", "-", "4", ".0">> >>,
     << <<"cc", "-", "by", "-", "nc", "-", "sa", "-", "4", ".0">>,
        <<"cc", "-", "by", "-", "nc", "-", "sa", "-", "4", ".0">> >>,
     << <<"cc", "-", "by", "-", "nc", "-", "sa", " ", "4", ".0">>,
        <<"cc", "-", "by", "-", "nc", "-", "sa", "-", "4", ".0">> >>,
     << <<"llama", "2">>, <<"llama", "2">> >>,
     << <<"llama", " ", "2">>, <<"llama", "2">> >>,
     << <<"llama", "-", "2">>, <<"llama", "2">> >>,
     << <<"llama", "3">>, <<"llama", "3">> >>,
     << <<"llama", " ", "3">>, <<"llama", "3">> >>,
     << <<"llama", "-", "3">>, <<"llama", "3">> >>,
     << <<"meta", "-", "llama", " ", "license">>, <<"llama", "2">> >>,
     << <<"meta", " ", "llama", " ", "license">>, <<"llama", "2">> >>,
     << <<"meta", "-", "llama", "-", "3", " ", "license">>, <<"llama", "3">> >>,
     << <<"other">>, <<"other">> >>,
     << <<"unknown">>, <<"unknown">> >>}

LicenseKeys == {kv[1] : kv \in LICENSE_NORMALIZATION}

CanonicalKeys == {kv[2] : kv \in LICENSE_NORMALIZATION}

\* A table whose alias "meta-llama license" stands for "meta-llama".
Lookup_Alias(s) ==
    IF s = <<"meta", "-", "llama", " ", "license">> THEN <<"meta", "-", "llama">>
    ELSE (CHOOSE kv \in LICENSE_NORMALIZATION : kv[1] = s)[2]

\* LICENSE_NORMALIZATION[s]
Lookup(s) == (CHOOSE kv \in LICENSE_NORMALIZATION : kv[1] = s)[2]

\* str.lower()
Lower(c) ==
    CASE c = "MIT" -> "mit"
      [] c = "Apache" -> "apache"
      [] c = "GPL" -> "gpl"
      [] c = "CC" -> "cc"
      [] c = "BY" -> "by"
      [] c = "License" -> "license"
      [] c = "BSD" -> "bsd"
      [] c = "MPL" -> "mpl"
      [] c = "Clause" -> "clause"
      [] OTHER -> c

RECURSIVE Strip(_)
\* str.strip()
Strip(s) ==
    IF s = <<>> THEN s
    ELSE IF Head(s) \in Whitespace THEN Strip(Tail(s))
    ELSE IF s[Len(s)] \in Whitespace THEN Strip(SubSeq(s, 1, Len(s) - 1))
    ELSE s

RECURSIVE CollapseSpaces(_)
\* re.sub(r"\s+", " ", s)
CollapseSpaces(s) ==
    IF s = <<>> THEN s
    ELSE IF Head(s) \in Whitespace
    THEN IF Len(s) > 1 /\ s[2] \in Whitespace
         THEN CollapseSpaces(Tail(s))
         ELSE <<" ">> \o CollapseSpaces(Tail(s))
    ELSE <<Head(s)>> \o CollapseSpaces(Tail(s))

\* s.startswith(p)
StartsWith(s, p) == Len(s) >= Len(p) /\ SubSeq(s, 1, Len(p)) = p

\* p in s
Contains(s, p) ==
    \E i \in 1..(Len(s) - Len(p) + 1) : SubSeq(s, i, i + Len(p) - 1) = p

RECURSIVE Replace(_, _, _)
\* s.replace(old, new), old not empty
Replace(s, old, new) ==
    IF s = <<>> THEN s
    ELSE IF StartsWith(s, old)
    THEN new \o Replace(SubSeq(s, Len(old) + 1, Len(s)), old, new)
    ELSE <<Head(s)>> \o Replace(Tail(s), old, new)

\* The position after an optional [-\s] at position i.
SkipSep(s, i) == IF i <= Len(s) /\ s[i] \in {"-", " "} THEN i + 1 ELSE i

\* The position after an optional group [-\s]?word at position i.
SkipWord(s, i, word) ==
    LET j == SkipSep(s, i)
    IN  IF j <= Len(s) /\ s[j] = word THEN j + 1 ELSE i

\* The end of a match of cc[-\s]?by(?:[-\s]?nc)?(?:[-\s]?sa)?[-\s]?4\.0
\* that starts at position i; 0 when there is none.
MatchCC(s, i) ==
    IF ~(i <= Len(s) /\ s[i] = "cc") THEN 0
    ELSE LET b == SkipSep(s, i + 1)
         IN  IF ~(b <= Len(s) /\ s[b] = "by") THEN 0
             ELSE LET n == SkipWord(s, b + 1, "nc")
                      a == SkipWord(s, n, "sa")
                      v == SkipSep(s, a)
                  IN  IF v + 1 <= Len(s) /\ s[v] = "4" /\ s[v + 1] = ".0"
                      THEN v + 1 ELSE 0

\* lines 151-153: the first match, without its spaces.
SearchCC(s) ==
    IF \E i \in 1..Len(s) : MatchCC(s, i) > 0
    THEN LET i == CHOOSE k \in 1..Len(s) :
                    MatchCC(s, k) > 0 /\ \A m \in 1..(k - 1) : MatchCC(s, m) = 0
         IN  Replace(SubSeq(s, i, MatchCC(s, i)), <<" ">>, <<>>)
    ELSE NoLicense

\* lines 130-148: the SPDX-like shorteners, then the CC pattern.
Shorteners(s) ==
    IF StartsWith(s, <<"apache">>) /\ Contains(s, <<"2", ".0">>)
    THEN <<"apache", "-", "2", ".0">>
    ELSE IF StartsWith(s, <<"bsd", " ", "3">>) THEN <<"bsd", "-", "3", "-", "clause">>
    ELSE IF StartsWith(s, <<"bsd", " ", "2">>) THEN <<"bsd", "-", "2", "-", "clause">>
    ELSE IF StartsWith(s, <<"mpl">>) /\ Contains(s, <<"2", ".0">>)
    THEN <<"mpl", "-", "2", ".0">>
    ELSE IF StartsWith(s, <<"lgpl">>) /\ Contains(s, <<"3", ".0">>)
    THEN <<"lgpl", "-", "3", ".0">>
    ELSE IF StartsWith(s, <<"gpl">>) /\ Contains(s, <<"3", ".0">>)
    THEN <<"gpl", "-", "3", ".0">>
    ELSE IF StartsWith(s, <<"agpl">>) /\ Contains(s, <<"3", ".0">>)
    THEN <<"agpl", "-", "3", ".0">>
    ELSE IF Contains(s, <<"llama", "-", "3">>) \/ Contains(s, <<"llama", " ", "3">>)
    THEN <<"llama", "3">>
    ELSE IF \/ Contains(s, <<"llama", "-", "2">>)
            \/ Contains(s, <<"llama", " ", "2">>)
            \/ Contains(s, <<"meta", "-", "llama">>)
    THEN <<"llama", "2">>
    ELSE SearchCC(s)

\* LicenseMetric.normalize
normalize(raw) ==
    IF raw = <<>> THEN NoLicense
    ELSE LET s0 == [i \in 1..Len(Strip(raw)) |-> Lower(Strip(raw)[i])]
             s1 == CollapseSpaces(Replace(s0, <<"_">>, <<"-">>))
             s2 == Replace(s1, <<"apache", " ", "license">>, <<"apache">>)
             s == Strip(Replace(s2, <<"version">>, <<>>))
             t == Strip(Replace(Replace(s, <<" ">>, <<>>), <<"-">>, <<" ">>))
         IN  IF s \in LicenseKeys THEN Lookup(s)
             ELSE IF t \in LicenseKeys THEN Lookup(t)
             ELSE Shorteners(s)

\* Raw license strings: the aliases of the table, and names, versions and
\* separators put together, alone or inside other text.
Seps == {<<>>, <<"-">>, <<" ">>, <<"_">>}

WideSeps == Seps \cup {<<" ", " ">>, <<"\t">>, <<" ", "-", " ">>}

VersionedNames ==
    {<<"apache">>, <<"Apache">>, <<"apache", " ", "license">>, <<"mpl">>,
     <<"lgpl">>, <<"gpl">>, <<"GPL">>, <<"agpl">>}

VersionedLicenses ==
    {n \o a \o w \o v : n \in VersionedNames, a \in WideSeps,
                        w \in {<<>>, <<"version", " ">>},
                        v \in {<<"2", ".0">>, <<"3", ".0">>}}

BsdLicenses ==
    {<<"bsd">> \o a \o d \o b \o <<"clause">> :
        a \in WideSeps, d \in {<<"2">>, <<"3">>}, b \in Seps}

LlamaLicenses ==
    {m \o <<"llama">> \o a \o d \o l :
        m \in {<<>>, <<"meta", "-">>, <<"meta", " ">>}, a \in Seps,
        d \in {<<>>, <<"2">>, <<"3">>}, l \in {<<>>, <<" ", "license">>}}

CCLicenses ==
    {c \o a \o <<"by">> \o n \o z \o d \o <<"4", ".0">> :
        c \in {<<"cc">>, <<"CC">>}, a \in Seps, d \in Seps,
        n \in {<<>>} \cup {b \o <<"nc">> : b \in Seps},
        z \in {<<>>} \cup {b \o <<"sa">> : b \in Seps}}

PlainLicenses ==
    {<<>>, <<" ">>, <<"mit">>, <<"MIT">>, <<"-", "mit">>, <<"other">>,
     <<"unknown">>, <<"x">>, <<"License">>}

RawLicenses ==
    LicenseKeys \cup
    {p \o r \o q :
        p \in {<<>>, <<" ">>, <<"x", " ">>},
        r \in VersionedLicenses \cup BsdLicenses \cup LlamaLicenses
                \cup CCLicenses \cup PlainLicenses,
        q \in {<<>>, <<" ">>, <<" ", "x">>}}

NormalizeInputs == [f : {"normalize"}, raw : RawLicenses]

Normalize ==
    /\ arg.f = "normalize" /\ ~result.set
    /\ result' = [set |-> TRUE, val |-> normalize(arg.raw)]
    /\ UNCHANGED <<arg, mainVars, authVars, apiVars, orchVars,
                   probeVars>>

\* extract_from_metadata: info.license, then the license: tags, then
\* cardData.license; the first that normalizes. A field that is absent or
\* not a string is the empty string here (normalize gives None for both).
RECURSIVE FirstNorm(_)
FirstNorm(raws) ==
    IF raws = <<>> THEN NoLicense
    ELSE IF normalize(Head(raws)) # NoLicense THEN normalize(Head(raws))
    ELSE FirstNorm(Tail(raws))

extract_from_metadata(info) ==
    IF normalize(info.license) # NoLicense THEN normalize(info.license)
    ELSE IF FirstNorm(info.tags) # NoLicense THEN FirstNorm(info.tags)
    ELSE normalize(info.card)

\* extract_from_readme: the LICENSE_REGEX matches in order, then the text
\* after "license:"; None for an empty README (also when model_card fails).
extract_from_readme(readme) ==
    IF readme.matches = <<>> /\ readme.line = <<>> THEN NoLicense
    ELSE IF FirstNorm(readme.matches) # NoLicense THEN FirstNorm(readme.matches)
    ELSE normalize(readme.line)

\* An allow-set test that compares without regard to case.
InAllowed_AnyCase(norm, allowed) ==
    \E a \in allowed : normalize(a) = norm

\* norm in allowed
InAllowed(norm, allowed) == norm \in allowed

\* LicenseMetric.compute for what model_info and model_card give.
LicenseMetric_compute_info(url, fetch, info, readme, allowed, t) ==
    IF url = NoUrl THEN Raises("TypeError")
    ELSE IF fetch = "error" THEN Raises("HfHubHTTPError")
    ELSE LET meta == extract_from_metadata(info)
             norm == IF meta # NoLicense THEN meta ELSE extract_from_readme(readme)
         IN  IF norm = NoLicense THEN Pair(0, t)
             ELSE IF InAllowed(norm, allowed) THEN Pair(100, t)
             ELSE Pair(0, t)

\* License strings found in a model's metadata and README.
FoundLicenses ==
    {<<>>, <<"MIT">>, <<"gpl", "-", "3", ".0">>, <<"x">>}

\* Allow-sets a caller passes: normalized keys, or SPDX spellings.
AllowSets ==
    {{}, {<<"mit">>}, {<<"mit">>, <<"gpl", "-", "3", ".0">>}, {<<"MIT">>}}

LicenseInputs ==
    [f : {"license"}, url : {Url}, fetch : {"ok"},
     info : [license : FoundLicenses,
             tags : {<<>>} \cup {<<x>> : x \in FoundLicenses \ {<<>>}},
             card : FoundLicenses],
     readme : [matches : {<<>>} \cup {<<x>> : x \in FoundLicenses \ {<<>>}},
               line : FoundLicenses],
     allowed : AllowSets, ms : {MeasuredMs}]
    \cup
    [f : {"license"}, url : {NoUrl, Url}, fetch : {"ok", "error"},
     info : [license : {<<"MIT">>}, tags : {<<>>}, card : {<<>>}],
     readme : [matches : {<<>>}, line : {<<>>}],
     allowed : AllowSets, ms : {MeasuredMs}]

LicenseCompute ==
    /\ arg.f = "license" /\ ~result.set
    /\ result' = [set |-> TRUE,
                  val |-> LicenseMetric_compute_info(arg.url, arg.fetch, arg.info,
                              arg.readme, arg.allowed, arg.ms)]
    /\ UNCHANGED <<arg, mainVars, authVars, apiVars, orchVars,
                   probeVars>>

\* utils/tools.py clamp on a number: max(0, min(n, 1)).
clamp(n) ==
    LET m == IF n < 100 THEN n ELSE 100
    IN  IF m > 0 THEN m ELSE 0

\* Download counts, with 1000 * math.log(downloads), rounded.
DownloadCounts == {1, 148, 149, 1000, 10000000}

LnMilli(d) ==
    CASE d = 1 -> 0
      [] d = 148 -> 4997
      [] d = 149 -> 5004
      [] d = 1000 -> 6908
      [] OTHER -> 16118

\* ramp_score = clamp((math.log(downloads) - 5) / 10), in hundredths
\* (rounded down).
RampScore(d) == clamp((LnMilli(d) - 5000) \div 100)

\* RampMetric.compute lines 52-60 for the (downloads, latency) that
\* get_downloads_and_latency returned.
RampMetric_compute_downloads(downloads, latency) ==
    IF downloads = None \/ downloads <= 0 THEN ReturnsNone
    ELSE Pair(RampScore(downloads), latency)

RampInputs ==
    [f : {"ramp"}, downloads : {None}, latency : {None}]
    \cup [f : {"ramp"}, downloads : {-10, 0} \cup DownloadCounts,
          latency : {0, MeasuredMs}]

RampCompute ==
    /\ arg.f = "ramp" /\ ~result.set
    /\ result' = [set |-> TRUE,
                  val |-> RampMetric_compute_downloads(arg.downloads, arg.latency)]
    /\ UNCHANGED <<arg, mainVars, authVars, apiVars, orchVars,
                   probeVars>>

\* Values given to the clamp helpers: floats (in hundredths), the float
\* nan, None, and strings (of a number, of nan, of neither).
Float(v) == [t |-> "float", v |-> v]

ClampValues ==
    {Float(v) : v \in {-100, -1, 0, 1, 50, 99, 100, 101, 270}}
    \cup {[t |-> "nan"], [t |-> "None"]}
    \cup {[t |-> "str", v |-> "0.5"], [t |-> "str", v |-> "nan"],
          [t |-> "str", v |-> "NaN-ish"]}

\* float(x): the float, or the exception it raises.
ToFloat(x) ==
    CASE x.t = "float" -> x
      [] x.t = "nan" -> x
      [] x.t = "None" -> [t |-> "raise", exc |-> "TypeError"]
      [] x.v = "0.5" -> Float(50)
      [] x.v = "nan" -> [t |-> "nan"]
      [] OTHER -> [t |-> "raise", exc |-> "ValueError"]

\* phase1_probe.clamp01 on any value: nan is neither < 0 nor > 1.
clamp01_any(x) ==
    LET y == ToFloat(x)
    IN  CASE y.t = "raise" -> Float(0)
          [] y.t = "nan" -> y
          [] OTHER -> Float(clamp01(y.v))

\* utils/tools.py clamp on any value: min(n, 1) compares n with 1, which
\* raises for None and for a string; min(nan, 1) is nan and max(0, nan) is 0.
clamp_any(x) ==
    CASE x.t = "float" -> Float(clamp(x.v))
      [] x.t = "nan" -> Float(0)
      [] OTHER -> [t |-> "raise", exc |-> "TypeError"]

ClampInputs == [f : {"clamp", "clamp01"}, x : ClampValues]

Clamp ==
    /\ arg.f = "clamp" /\ ~result.set
    /\ result' = [set |-> TRUE, val |-> clamp_any(arg.x)]
    /\ UNCHANGED <<arg, mainVars, authVars, apiVars, orchVars,
                   probeVars>>

Clamp01 ==
    /\ arg.f = "clamp01" /\ ~result.set
    /\ result' = [set |-> TRUE, val |-> clamp01_any(arg.x)]
    /\ UNCHANGED <<arg, mainVars, authVars, apiVars, orchVars,
                   probeVars>>

\* SizeMetric.  Parameter counts and memory are counted in units of 1e8.
NoPrecision == "None"

\* 2 * PRECISION_BYTES[precision]
PRECISION_BYTES_X2(prec) ==
    CASE prec = "fp32" -> 8
      [] prec = "fp16" -> 4
      [] prec = "int8" -> 2
      [] OTHER -> 1

Precisions == {"fp32", "fp16", "int8", "4bit"}

\* DEFAULT_PROFILES: mem_bytes (in 1e8 bytes) and supports_gpu.
DEFAULT_PROFILES ==
    [raspberry_pi |-> [mem_bytes |-> 60, supports_gpu |-> FALSE],
     jetson_nano |-> [mem_bytes |-> 30, supports_gpu |-> TRUE],
     desktop_pc |-> [mem_bytes |-> 120, supports_gpu |-> TRUE],
     aws_server |-> [mem_bytes |-> 160, supports_gpu |-> TRUE]]

\* 10 * overhead_factor (SizeMetric.__init__: 1.3)
OverheadX10 == 13

\* need <= mem_cap for need = params * PRECISION_BYTES[prec] * overhead
Fits(params, prec, mem_cap) ==
    params * PRECISION_BYTES_X2(prec) * OverheadX10 <= mem_cap * 20

\* An order for a device without GPU that leaves the 4-bit tier out.
PrecisionOrder_No4bit(supports_gpu) ==
    IF supports_gpu THEN <<"fp16", "int8", "4bit">> ELSE <<"int8", "fp32">>

\* order = ["fp16", "int8", "4bit"] if supports_gpu else ["int8", "4bit", "fp32"]
PrecisionOrder(supports_gpu) ==
    IF supports_gpu THEN <<"fp16", "int8", "4bit">>
    ELSE <<"int8", "4bit", "fp32">>

\* _pick_best_precision
pick_best_precision(params, mem_cap, supports_gpu) ==
    LET order == PrecisionOrder(supports_gpu)
        ok == {i \in 1..Len(order) : Fits(params, order[i], mem_cap)}
    IN  IF ok = {} THEN NoPrecision
        ELSE order[CHOOSE i \in ok : \A j \in ok : i <= j]

\* _base_score_for_precision, in hundredths
base_score_for_precision(prec) ==
    CASE prec = "fp16" -> 100
      [] prec = "int8" -> 85
      [] prec = "4bit" -> 70
      [] prec = "fp32" -> 60
      [] OTHER -> 0

\* Parameter counts on both sides of every profile's thresholds.
ParamCounts ==
    {1, 11, 12, 23, 24, 46, 47, 61, 62, 92, 93, 123, 124, 184, 185, 246,
     247, 300}

\* _throughput_penalty is in (0, 1]; in hundredths, rounded up.
Penalties == {1, 50, 100}

\* One entry of SizeMetric.compute's loop over the profiles.
SizeScore(params, cfg, penalty) ==
    LET best_prec == pick_best_precision(params, cfg.mem_bytes, cfg.supports_gpu)
    IN  [prec |-> best_prec,
         score |-> clamp((base_score_for_precision(best_prec) * penalty) \div 100)]

SizeInputs ==
    [f : {"size"}, device : DOMAIN DEFAULT_PROFILES, params : ParamCounts,
     penalty : Penalties]

SizeCompute ==
    /\ arg.f = "size" /\ ~result.set
    /\ result' = [set |-> TRUE,
                  val |-> SizeScore(arg.params, DEFAULT_PROFILES[arg.device],
                                    arg.penalty)]
    /\ UNCHANGED <<arg, mainVars, authVars, apiVars, orchVars,
                   probeVars>>

\* ReproducibilityMetric.  What the model card holds, and how the run of
\* the snippet ends: exit status 0, a non-zero exit status with the error
\* named on stderr, the 20 s timeout, or subprocess.run failing otherwise.
CardKinds == {"fetch_error", "no_text", "no_block", "snippet"}

StderrKinds ==
    {"ModuleNotFoundError", "ImportError", "NameError", "SyntaxError", ""}

RunOutcomes ==
    {[kind |-> "success", stderr |-> ""], [kind |-> "timeout", stderr |-> ""],
     [kind |-> "error", stderr |-> ""]}
    \cup [kind : {"failed"}, stderr : StderrKinds]

\* extract_demo_code: "" unless the card text has a python block.
extract_demo_code(card) == IF card = "snippet" THEN "code" ELSE ""

\* try_run_code lines 58-66: the keywords looked for in stderr.
Recoverable == {"ModuleNotFoundError", "ImportError", "NameError"}

\* try_run_code: the value returned (or the exception that leaves it) and
\* whether the temporary file is still there afterwards. The finally
\* clause removes the file on every way out of the try.
try_run_code(code, run) ==
    IF code = "" THEN [raised |-> FALSE, value |-> 0, file |-> FALSE]
    ELSE CASE run.kind = "success" -> [raised |-> FALSE, value |-> 100, file |-> FALSE]
           [] run.kind = "failed" ->
                [raised |-> FALSE,
                 value |-> IF run.stderr \in Recoverable THEN 50 ELSE 0,
                 file |-> FALSE]
           [] run.kind = "timeout" -> [raised |-> FALSE, value |-> 0, file |-> FALSE]
           [] OTHER -> [raised |-> TRUE, value |-> None, file |-> FALSE]

\* ReproducibilityMetric.compute: every exception gives 0.0.
ReproducibilityMetric_compute(card, run, t) ==
    LET code == extract_demo_code(card)
        r == try_run_code(code, run)
    IN  [val |-> Pair(IF code = "" \/ r.raised THEN 0 ELSE r.value, t),
         file |-> r.file]

ReproInputs == [f : {"repro"}, card : CardKinds, run : RunOutcomes]

ReproCompute ==
    /\ arg.f = "repro" /\ ~result.set
    /\ result' = [set |-> TRUE,
                  val |-> ReproducibilityMetric_compute(arg.card, arg.run,
                                                        MeasuredMs)]
    /\ UNCHANGED <<arg, mainVars, authVars, apiVars, orchVars,
                   probeVars>>

\* ReviewednessMetric.  A pull request of the GitHub answer: whether
\* merged_at is set, additions + deletions, whether review_comments_url is
\* set, and what the request for its review comments gives.
MaxPRs == 2

ReviewAnswers == {"none", "some", "notlist", "error"}

PullRequests ==
    [merged : BOOLEAN, changes : {0, 10, 30}, review_url : BOOLEAN,
     reviews : ReviewAnswers]

\* What the request for the closed pull requests gives: a list, JSON that
\* is not a list (an error message), or an exception.
PullAnswers ==
    {[kind |-> "error", items |-> <<>>], [kind |-> "notlist", items |-> <<>>]}
    \cup [kind : {"list"},
          items : UNION {[1..n -> PullRequests] : n \in 0..MaxPRs}]

\* A loop that counts every closed pull request.
Counted_All(pr) == TRUE

\* line 57: unmerged pull requests are skipped.
Counted(pr) == pr.merged

RECURSIVE ReviewLoop(_, _, _)
\* The for loop of lines 56-71 from the state (total_lines, reviewed_lines);
\* "error" when a request for review comments raises.
ReviewLoop(prs, total_lines, reviewed_lines) ==
    IF prs = <<>>
    THEN [failed |-> FALSE, total |-> total_lines, reviewed |-> reviewed_lines]
    ELSE LET pr == Head(prs)
         IN  IF ~Counted(pr)
             THEN ReviewLoop(Tail(prs), total_lines, reviewed_lines)
             ELSE IF pr.review_url /\ pr.reviews = "error"
             THEN [failed |-> TRUE, total |-> 0, reviewed |-> 0]
             ELSE ReviewLoop(Tail(prs), total_lines + pr.changes,
                             IF pr.review_url /\ pr.reviews = "some"
                             THEN reviewed_lines + pr.changes
                             ELSE reviewed_lines)

\* get_reviewed_fraction, in hundredths (rounded down).
get_reviewed_fraction(prs) ==
    IF prs.kind # "list" \/ prs.items = <<>> THEN 0
    ELSE LET r == ReviewLoop(prs.items, 0, 0)
         IN  IF r.failed THEN 0
             ELSE IF r.total = 0 THEN 0
             ELSE (r.reviewed * 100) \div r.total

\* ReviewednessMetric.compute: -1.0 when extract_github_repo gives "".
ReviewednessMetric_compute_prs(linked, prs, t) ==
    IF ~linked THEN Pair(-100, t) ELSE Pair(get_reviewed_fraction(prs), t)

ReviewInputs ==
    [f : {"reviewed"}, linked : {TRUE}, prs : PullAnswers]
    \cup [f : {"reviewed"}, linked : {FALSE},
          prs : {[kind |-> "list", items |-> <<>>]}]

ReviewCompute ==
    /\ arg.f = "reviewed" /\ ~result.set
    /\ result' = [set |-> TRUE,
                  val |-> ReviewednessMetric_compute_prs(arg.linked, arg.prs,
                                                         MeasuredMs)]
    /\ UNCHANGED <<arg, mainVars, authVars, apiVars, orchVars,
                   probeVars>>

BusInputs ==
    [f : {"bus"}, url : {NoUrl, ShortUrl, Url}, fetch : {"ok", "error"},
     commits : UNION {[1..n -> SUBSET Authors] : n \in 0..MaxCommits},
     ms : {0, MeasuredMs}]

BusCompute ==
    /\ arg.f = "bus" /\ ~result.set
    /\ result' = [set |-> TRUE,
                  val |-> BusMetric_compute_stats(arg.url, arg.fetch,
                                                  arg.commits, arg.ms)]
    /\ UNCHANGED <<arg, mainVars, authVars, apiVars, orchVars,
                   probeVars>>

\* metrics.lineage.get_lineage and TreeScoreMetric
\* (src/src/metrics/lineage.py, tree_score_metric.py).  A model is a
\* directory of the registry; a path names the directory that
\* os.path.join(registry_root, path) resolves to, and several paths name the
\* same directory.
Dirs == {"dA", "dB"}

NoDir == "nodir"

ModelPaths == {"A", "./A", "B", "nowhere"}

\* os.path.join(registry_root, path) on the file system.
DirOf(path) ==
    CASE path \in {"A", "./A"} -> "dA"
      [] path = "B" -> "dB"
      [] OTHER -> NoDir

\* What a directory's config.json is: absent, not JSON, JSON without the
\* key base_model_name_or_path, with the value null, or with a path.
ConfigKinds == {"absent", "invalid", "nokey", "null"}

Configs == ConfigKinds \cup ModelPaths

\* The registries: each directory exists or not, with its config.json.
Registries ==
    {r \in [Dirs -> [isdir : BOOLEAN, config : Configs]] :
        \A d \in Dirs : ~r[d].isdir => r[d].config = "absent"}

isdir(reg, path) == DirOf(path) # NoDir /\ reg[DirOf(path)].isdir

ConfigAt(reg, path) ==
    IF isdir(reg, path) THEN reg[DirOf(path)].config ELSE "absent"

\* cfg.get("base_model_name_or_path"), "null" for None.
ParentOf(reg, path) ==
    IF ConfigAt(reg, path) \in ModelPaths THEN ConfigAt(reg, path) ELSE "null"

\* trace (lineage.py lines 14-31) on the state of lineage and visited;
\* raised is json.load failing on the config.
RECURSIVE trace(_, _, _)
trace(reg, path, st) ==
    IF st.raised \/ path \in st.visited THEN st
    ELSE LET seen == [st EXCEPT !.visited = @ \cup {path}]
             cfg == ConfigAt(reg, path)
             added == [seen EXCEPT !.lineage = Append(@, path)]
         IN  IF cfg = "absent" THEN added
             ELSE IF cfg = "invalid" THEN [seen EXCEPT !.raised = TRUE]
             ELSE IF ParentOf(reg, path) # "null"
                     /\ isdir(reg, ParentOf(reg, path))
                THEN trace(reg, ParentOf(reg, path), added)
             ELSE added

Reverse(list) == [i \in 1..Len(list) |-> list[Len(list) + 1 - i]]

\* get_lineage (lineage.py lines 4-34): the chain, ancestor first.
get_lineage(reg, model_dir) ==
    LET st == trace(reg, model_dir,
                    [lineage |-> <<>>, visited |-> {}, raised |-> FALSE])
    IN  [raised |-> st.raised, chain |-> Reverse(st.lineage)]

\* _is_complete_lineage (tree_score_metric.py lines 18-34).
is_complete_lineage(reg, lineage) ==
    \A n \in 1..Len(lineage) :
        /\ ConfigAt(reg, lineage[n]) # "absent"
        /\ n # Len(lineage) => ConfigAt(reg, lineage[n]) # "nokey"

\* TreeScoreMetric.compute (lines 36-62): a failure gives (0.0, 0).
TreeScoreMetric_compute(reg, model_dir, t) ==
    LET lineage == get_lineage(reg, model_dir)
        num_nodes == Len(lineage.chain)
    IN  IF lineage.raised THEN Pair(0, 0)
        ELSE IF num_nodes = 0 THEN Pair(0, t)
        ELSE IF num_nodes = 1 THEN Pair(50, t)
        ELSE IF is_complete_lineage(reg, lineage.chain) THEN Pair(100, t)
        ELSE Pair(50, t)

LineageInputs ==
    [f : {"lineage", "treescore"}, registry : Registries,
     model_dir : ModelPaths]

GetLineage ==
    /\ arg.f = "lineage" /\ ~result.set
    /\ result' = [set |-> TRUE,
                  val |-> get_lineage(arg.registry, arg.model_dir)]
    /\ UNCHANGED <<arg, mainVars, authVars, apiVars, orchVars,
                   probeVars>>

TreeScoreCompute ==
    /\ arg.f = "treescore" /\ ~result.set
    /\ result' = [set |-> TRUE,
                  val |-> TreeScoreMetric_compute(arg.registry, arg.model_dir,
                                                  MeasuredMs)]
    /\ UNCHANGED <<arg, mainVars, authVars, apiVars, orchVars,
                   probeVars>>

\* phase1_probe.DEFAULT_ALLOWED, the SPDX spellings as written there.
DEFAULT_ALLOWED ==
    {<<"MIT">>, <<"Apache", "-", "2", ".0">>,
     <<"BSD", "-", "2", "-", "Clause">>, <<"BSD", "-", "3", "-", "Clause">>,
     <<"MPL", "-", "2", ".0">>, <<"CC", "-", "BY", "-", "4", ".0">>}

\* _allowed_from_module(mod): license_metric defines no ALLOWED, so
\* getattr gives None and the default tuple is returned.
allowed_from_module == DEFAULT_ALLOWED

\* call_metric and _call_normalized on LicenseMetric().compute, whose
\* signature is (url, allowed, hf_token=None): kwargs is {allowed: ...};
\* fn(**kwargs) lacks url and fn(model_url, code_url, dataset_url, **kwargs)
\* gives allowed twice, both TypeError before the body is entered; the
\* call that binds is fn(best, allowed=...).  An exception of the body
\* that is not a TypeError ends in call_metric's except branch, (0.0, 0).
call_metric_result(first, res) ==
    [on |-> first,
     score |-> IF res.kind = "pair" THEN res.score ELSE 0,
     latency |-> IF res.kind = "pair" THEN res.latency ELSE 0]

call_normalized_license(u, fetch, info, readme, t) ==
    call_metric_result(best(u),
        LicenseMetric_compute_info(IF best(u) = NoUrl THEN NoUrl ELSE Url,
            fetch, info, readme, allowed_from_module, t))

\* Input lines of the probe runner: the model URL is present, the code and
\* dataset URLs may be.
ProbeLicenseInputs ==
    [f : {"probe_license"},
     urls : [code_url : UrlValues, dataset_url : UrlValues, model_url : {Url}],
     fetch : {"ok", "error"},
     info : [license : FoundLicenses \cup DEFAULT_ALLOWED, tags : {<<>>},
             card : {<<>>}],
     readme : [matches : {<<>>}, line : {<<>>}],
     ms : {MeasuredMs}]

ProbeLicense ==
    /\ arg.f = "probe_license" /\ ~result.set
    /\ result' = [set |-> TRUE,
                  val |-> call_normalized_license(arg.urls, arg.fetch,
                              arg.info, arg.readme, arg.ms)]
    /\ UNCHANGED <<arg, mainVars, authVars, apiVars, orchVars,
                   probeVars>>

FnInputs ==
    BusInputs \cup NormalizeInputs \cup LicenseInputs \cup RampInputs
        \cup ClampInputs \cup SizeInputs \cup ReproInputs
        \cup ReviewInputs \cup LineageInputs \cup ProbeLicenseInputs

FnInit ==
    /\ arg \in FnInputs
    /\ result = [set |-> FALSE]
    /\ MainIdle
    /\ AuthIdle
    /\ ApiIdle
    /\ OrchIdle
    /\ ProbeIdle

FnNext ==
    \/ BusCompute
    \/ Normalize
    \/ LicenseCompute
    \/ RampCompute
    \/ Clamp
    \/ Clamp01
    \/ SizeCompute
    \/ ReproCompute
    \/ ReviewCompute
    \/ GetLineage
    \/ TreeScoreCompute
    \/ ProbeLicense

FnSpec == FnInit /\ [][FnNext]_vars

-----------------------------------------------------------------------------
(* services.auth: verify_api_key and its brute-force lockout               *)
(* (src/src/services/auth.py).  verify_api_key is a synchronous FastAPI    *)
(* dependency of the routes, so requests run it on threads of a pool; the  *)
(* module's dicts _attempts and _lockouts are shared and unguarded.  Each  *)
(* action below is one access of a thread to the shared dicts.  A count    *)
(* or a lockout_until of 0 is a key that is absent from the dict.          *)

\* API_KEY_MAX_ATTEMPTS and API_KEY_LOCKOUT_SECONDS as test_auth.py sets them.
MAX_ATTEMPTS == 2

LOCKOUT_TTL == 2

\* The clock stops here.
MaxTime == 2

\* A key that got this many 401 answers in a row is not tried again.
MaxFailures == 3

\* What API_KEYS_JSON can hold: nothing, a key with its user, a key whose
\* user info is empty.
ApiMaps ==
    {[k \in {} |-> ""], [k \in {"correct"} |-> "bob"],
     [k \in {"correct"} |-> ""]}

\* api_map.get(key), "" where Python gives None; both are falsy.
Info(k) == IF k \in DOMAIN api_map THEN api_map[k] ELSE ""

AuthInit ==
    /\ api_map \in ApiMaps
    /\ now = 0
    /\ attempts = [k \in Keys |-> 0]
    /\ lockouts = [k \in Keys |-> 0]
    /\ th = [t \in Threads |-> IdleThread]
    /\ failures = [k \in Keys |-> 0]
    /\ lockedFrom = [k \in Keys |-> 0]
    /\ MainIdle
    /\ FnIdle
    /\ ApiIdle
    /\ OrchIdle
    /\ ProbeIdle

\* The answer of thread t's call: a return (200) or an HTTPException.
Respond(t, status, info) ==
    [th EXCEPT ![t].pc = "idle", ![t].count = 0, ![t].end = now,
               ![t].status = status, ![t].info = info]

\* time.time() advances.
Tick ==
    /\ now < MaxTime
    /\ now' = now + 1
    /\ UNCHANGED <<api_map, attempts, lockouts, th, failures, lockedFrom,
                   mainVars, fnVars, apiVars, orchVars, probeVars>>

\* A request arrives and its thread enters verify_api_key (line 77).
Request(t, k) ==
    /\ th[t].pc = "idle"
    /\ failures[k] < MaxFailures
    /\ th' = [th EXCEPT ![t] = [pc |-> "verify", key |-> k, count |-> 0,
                                start |-> now, end |-> now,
                                seen |-> failures[k],
                                status |-> 0, info |-> ""]]
    /\ UNCHANGED <<api_map, now, attempts, lockouts, failures, lockedFrom,
                   mainVars, fnVars, apiVars, orchVars, probeVars>>

\* Lines 83-91 and _is_locked lines 54-57: the permissive answer without
\* keys, then the check of the key's lock against the clock.
Verify(t) ==
    /\ th[t].pc = "verify"
    /\ th' = IF DOMAIN api_map = {}
                THEN Respond(t, 200, "autograder")
             ELSE IF lockouts[th[t].key] # 0 /\ now < lockouts[th[t].key]
                THEN Respond(t, 423, "")
             ELSE IF lockouts[th[t].key] # 0
                THEN [th EXCEPT ![t].pc = "expire"]
             ELSE [th EXCEPT ![t].pc = "lookup"]
    /\ UNCHANGED <<api_map, now, attempts, lockouts, failures, lockedFrom,
                   mainVars, fnVars, apiVars, orchVars, probeVars>>

\* _is_locked line 58: del _lockouts[key], a KeyError (an answer 500) when
\* another thread has deleted the entry in between.
Expire(t) ==
    /\ th[t].pc = "expire"
    /\ IF lockouts[th[t].key] = 0
          THEN /\ th' = Respond(t, 500, "")
               /\ UNCHANGED <<lockouts, failures>>
          ELSE /\ lockouts' = [lockouts EXCEPT ![th[t].key] = 0]
               /\ failures' = [failures EXCEPT ![th[t].key] = 0]
               /\ th' = [th EXCEPT ![t].pc = "lookup"]
    /\ UNCHANGED <<api_map, now, attempts, lockedFrom,
                   mainVars, fnVars, apiVars, orchVars, probeVars>>

\* Lines 94-95 and _register_failure line 62: the lookup of the key and,
\* for a key without (truthy) info, the read of its count.
GetInfo(t) ==
    /\ th[t].pc = "lookup"
    /\ th' = IF Info(th[t].key) # ""
                THEN [th EXCEPT ![t].pc = "success"]
                ELSE [th EXCEPT ![t].pc = "store",
                                ![t].count = attempts[th[t].key]]
    /\ UNCHANGED <<api_map, now, attempts, lockouts, failures, lockedFrom,
                   mainVars, fnVars, apiVars, orchVars, probeVars>>

\* The 401 of line 97 as the history sees it.
Fail(t) ==
    /\ th' = Respond(t, 401, "")
    /\ failures' = [failures EXCEPT ![th[t].key] = @ + 1]
    /\ lockedFrom' = IF failures[th[t].key] + 1 = MAX_ATTEMPTS
                        THEN [lockedFrom EXCEPT ![th[t].key] = th[t].start]
                        ELSE lockedFrom

\* _register_failure lines 63-65 and line 97: the count that was read, plus
\* one, is stored; below _MAX_ATTEMPTS the call ends with 401.
Store(t) ==
    /\ th[t].pc = "store"
    /\ attempts' = [attempts EXCEPT ![th[t].key] = th[t].count + 1]
    /\ IF th[t].count + 1 >= MAX_ATTEMPTS
          THEN /\ th' = [th EXCEPT ![t].pc = "lock"]
               /\ UNCHANGED <<failures, lockedFrom>>
          ELSE Fail(t)
    /\ UNCHANGED <<api_map, now, lockouts,
                   mainVars, fnVars, apiVars, orchVars, probeVars>>

\* _register_failure line 66: the key is locked for _LOCKOUT_TTL seconds.
Lock(t) ==
    /\ th[t].pc = "lock"
    /\ lockouts' = [lockouts EXCEPT ![th[t].key] = now + LOCKOUT_TTL]
    /\ th' = [th EXCEPT ![t].pc = "pop"]
    /\ UNCHANGED <<api_map, now, attempts, failures, lockedFrom,
                   mainVars, fnVars, apiVars, orchVars, probeVars>>

\* _register_failure line 67 and line 97: the count is dropped, then 401.
Pop(t) ==
    /\ th[t].pc = "pop"
    /\ attempts' = [attempts EXCEPT ![th[t].key] = 0]
    /\ Fail(t)
    /\ UNCHANGED <<api_map, now, lockouts,
                   mainVars, fnVars, apiVars, orchVars, probeVars>>

\* Lines 99-100 and _register_success: the key's count is dropped and its
\* info returned.
Success(t) ==
    /\ th[t].pc = "success"
    /\ attempts' = [attempts EXCEPT ![th[t].key] = 0]
    /\ th' = Respond(t, 200, Info(th[t].key))
    /\ UNCHANGED <<api_map, now, lockouts, failures, lockedFrom,
                   mainVars, fnVars, apiVars, orchVars, probeVars>>

AuthNext ==
    \/ Tick
    \/ \E t \in Threads, k \in Keys : Request(t, k)
    \/ \E t \in Threads : Verify(t)
    \/ \E t \in Threads : Expire(t)
    \/ \E t \in Threads : GetInfo(t)
    \/ \E t \in Threads : Store(t)
    \/ \E t \in Threads : Lock(t)
    \/ \E t \in Threads : Pop(t)
    \/ \E t \in Threads : Success(t)

AuthSpec == AuthInit /\ [][AuthNext]_vars

-----------------------------------------------------------------------------
(* services.rate_limit: RateLimiter.allow in its in-memory mode            *)
(* (src/src/services/rate_limit.py; REDIS_URL is empty by default).  The   *)
(* routers of routes_models and routes_enumerate carry the dependency      *)
(* enforce_rate_limit, a synchronous function that runs on a pool thread;  *)
(* upload_model calls rate_limiter.allow once more in its body.  An absent *)
(* key of _in_memory is a count of 0: .get(key, (0, minute)) reads it so.  *)

\* RATE_LIMIT_PER_MIN as the fixture of test_stride_security.py sets it.
RATE_LIMIT_PER_MIN == 3

\* The requests of one run.
MaxSent == 4

RECURSIVE Sum(_, _)
Sum(f, S) ==
    IF S = {} THEN 0
    ELSE LET x == CHOOSE y \in S : TRUE IN f[x] + Sum(f, S \ {x})

\* The requests that began their first allow call.
Sent == Sum([u \in Users |-> Sum(sent[u], Minutes)], Users)

\* The answer of thread t's request; its locals are gone.
Answer(t, status) ==
    [rl EXCEPT ![t] = [IdleRequest EXCEPT !.seq = rl[t].seq,
                                          !.status = status]]

RateInit ==
    /\ in_memory = [u \in Users |-> [cnt |-> 0, ts |-> 0]]
    /\ minute = 0
    /\ rl = [t \in Threads |-> IdleRequest]
    /\ sent = [u \in Users |-> [m \in Minutes |-> 0]]
    /\ granted = [u \in Users |-> [m \in Minutes |-> 0]]
    /\ overlapped = FALSE
    /\ S3Idle
    /\ StoreIdle
    /\ MainIdle
    /\ FnIdle
    /\ AuthIdle
    /\ OrchIdle
    /\ ProbeIdle

\* time.time() enters the next minute.
NextMinute ==
    /\ minute < MaxMinute
    /\ minute' = minute + 1
    /\ UNCHANGED <<in_memory, rl, sent, granted, overlapped, notRateVars>>

\* An authenticated request of user u for route r reaches the dependency
\* enforce_rate_limit (lines 59-62).
Arrive(t, u, r) ==
    /\ rl[t].pc = "idle"
    /\ Sent + Cardinality({o \in Threads : rl[o].pc = "read"
                                /\ rl[o].phase = "dep"}) < MaxSent
    /\ rl' = [rl EXCEPT ![t] = [pc |-> "read", user |-> u, route |-> r,
                                phase |-> "dep", cnt |-> 0, ts |-> 0,
                                seq |-> 0, status |-> 0]]
    /\ overlapped' = (overlapped \/ \E o \in Threads : rl[o].pc # "idle")
    /\ UNCHANGED <<in_memory, minute, sent, granted, notRateVars>>

\* _allow_in_memory lines 45-51: the minute, the key's pair and the new
\* count, all in locals.  The dependency's call numbers the request.
AllowRead(t) ==
    /\ rl[t].pc = "read"
    /\ LET u == rl[t].user
           c == IF in_memory[u].cnt = 0 \/ in_memory[u].ts = minute
                   THEN in_memory[u].cnt + 1
                   ELSE 1
       IN  /\ rl' = [rl EXCEPT ![t].pc = "write", ![t].cnt = c,
                               ![t].ts = minute,
                               ![t].seq = IF rl[t].phase = "dep"
                                             THEN sent[u][minute] + 1
                                             ELSE @]
           /\ sent' = IF rl[t].phase = "dep"
                         THEN [sent EXCEPT ![u][minute] = @ + 1]
                         ELSE sent
    /\ UNCHANGED <<in_memory, minute, granted, overlapped, notRateVars>>

\* Does the route's body call rate_limiter.allow again (routes_models.py
\* lines 87-89)?
ChecksAgain(r) == r = "upload"

\* _allow_in_memory lines 52-53, then enforce_rate_limit lines 62-64 or
\* upload_model lines 88-89: the pair is stored, cnt <= limit decides.
AllowWrite(t) ==
    /\ rl[t].pc = "write"
    /\ LET u == rl[t].user
           ok == rl[t].cnt <= RATE_LIMIT_PER_MIN
       IN  /\ in_memory' = [in_memory EXCEPT
                               ![u] = [cnt |-> rl[t].cnt, ts |-> rl[t].ts]]
           /\ granted' = IF ok
                            THEN [granted EXCEPT ![u][rl[t].ts] = @ + 1]
                            ELSE granted
           /\ rl' = IF ~ok
                       THEN Answer(t, 429)
                    ELSE IF rl[t].phase = "dep" /\ ChecksAgain(rl[t].route)
                       THEN [rl EXCEPT ![t].pc = "read", ![t].phase = "body"]
                    ELSE Answer(t, 200)
    /\ UNCHANGED <<minute, sent, overlapped, notRateVars>>

RateNext ==
    \/ NextMinute
    \/ \E t \in Threads, u \in Users, r \in Routes : Arrive(t, u, r)
    \/ \E t \in Threads : AllowRead(t)
    \/ \E t \in Threads : AllowWrite(t)

RateSpec == RateInit /\ [][RateNext]_vars

-----------------------------------------------------------------------------
(* routes_models.upload_model and download_model, routes_ingest.ingest_model *)
(* and the bucket they share through services.s3_service.  The bucket holds  *)
(* what these routes wrote; every S3 call can fail with a ClientError.       *)

\* The requests of one run.
MaxJobs == 3

\* The file contents, named by their SHA-256.
Sums == {"a", "b"}

\* What is wrong with an upload, in the order upload_model looks for it.
UploadInputs ==
    {"limited", "mime", "oversize", "traversal", "disallowed", "badzip",
     "clean"}

\* upload_model lines 88-111 and validate_zip_safely: the status an upload
\* is rejected with, 0 for an upload that passes every check.
UploadRejection(fault) ==
    CASE fault = "limited" -> 429
      [] fault = "mime" -> 400
      [] fault = "oversize" -> 413
      [] fault \in {"traversal", "disallowed", "badzip"} -> 400
      [] OTHER -> 0

\* The metrics ingest_model gates on (lines 50-60) and the keys of the
\* record run_all_metrics returns (orchestrator.py lines 100-135).
metric_keys ==
    {"ramp_up_time", "bus_factor", "performance_claims", "license",
     "dataset_quality", "code_quality", "reproducibility", "reviewedness",
     "treescore"}

ReturnedKeys == metric_keys \ {"treescore"}

\* What run_all_metrics does: it raises, or returns a record (scores in
\* hundredths) in which at most one metric is just below 0.5.
MetricsResults ==
    {"raised", "passing"} \cup ReturnedKeys

\* metrics.get(k): None for a key the record lacks.
MetricsGet(m, k) ==
    IF k \notin ReturnedKeys THEN None
    ELSE IF m = k THEN 49 ELSE 50

\* A gate that looks only at the keys run_all_metrics does not return.
failing_Unreturned(m) ==
    {k \in metric_keys \ ReturnedKeys :
        MetricsGet(m, k) # None /\ MetricsGet(m, k) < 50}

\* ingest_model lines 62-66.
failing(m) ==
    {k \in metric_keys : MetricsGet(m, k) # None /\ MetricsGet(m, k) < 50}

S3Init ==
    /\ objects = [f \in FileNames |-> NoSum]
    /\ manifests = [f \in FileNames |-> NoSum]
    /\ job = IdleJob
    /\ jobs = 0
    /\ RateIdle
    /\ StoreIdle
    /\ MainIdle
    /\ FnIdle
    /\ AuthIdle
    /\ OrchIdle
    /\ ProbeIdle

Answered(status) == [job EXCEPT !.pc = "idle", !.status = status]

\* The order of upload_model's statements: the checks of lines 87-111,
\* upload_file_to_s3 at line 118, write_manifest at line 128.
UploadSteps_PutFirst == <<"put", "check", "manifest">>

UploadSteps == <<"check", "put", "manifest">>

\* The order of ingest_model's statements: lines 46-75, 79-99, 105, 124.
IngestSteps == <<"gate", "fetch", "put", "manifest">>

StepsOf(op) == IF op = "upload" THEN UploadSteps ELSE IngestSteps

\* The request after its current statement: at the next one, or answered
\* 200 after the last.
Proceed ==
    LET steps == StepsOf(job.op)
        i == CHOOSE n \in 1..Len(steps) : steps[n] = job.pc
    IN  IF i = Len(steps) THEN Answered(200)
        ELSE [job EXCEPT !.pc = steps[i + 1]]

\* POST /upload with a file of content c (upload_model lines 77-85).
UploadStart(fault, c) ==
    /\ job.pc = "idle"
    /\ jobs < MaxJobs
    /\ jobs' = jobs + 1
    /\ job' = [IdleJob EXCEPT !.op = "upload", !.pc = UploadSteps[1],
                              !.file = "m.zip", !.input = fault, !.sum = c]
    /\ UNCHANGED <<objects, manifests, notS3Vars>>

\* upload_model lines 87-114: the rate limit, the MIME type, the size and
\* the archive's entries are checked before anything is sent to S3.
UploadCheck ==
    /\ job.op = "upload"
    /\ job.pc = "check"
    /\ job' = IF UploadRejection(job.input) # 0
                 THEN Answered(UploadRejection(job.input))
                 ELSE Proceed
    /\ UNCHANGED <<objects, manifests, jobs, notS3Vars>>

\* POST /ingest; m is what run_all_metrics will do (ingest_model line 46).
IngestStart(m, c) ==
    /\ job.pc = "idle"
    /\ jobs < MaxJobs
    /\ jobs' = jobs + 1
    /\ job' = [IdleJob EXCEPT !.op = "ingest", !.pc = IngestSteps[1],
                              !.file = "org__m.zip", !.input = m, !.sum = c]
    /\ UNCHANGED <<objects, manifests, notS3Vars>>

\* ingest_model lines 46-75: a raise of run_all_metrics ends the request,
\* a failing metric is answered 400.
IngestGate ==
    /\ job.op = "ingest"
    /\ job.pc = "gate"
    /\ job' = IF job.input = "raised" THEN Answered(500)
              ELSE IF failing(job.input) # {}
                 THEN [Answered(400) EXCEPT !.gate = "failing"]
              ELSE [Proceed EXCEPT !.gate = "passed"]
    /\ UNCHANGED <<objects, manifests, jobs, notS3Vars>>

\* ingest_model lines 79-99: the artifact is fetched (hf_hub_download, then
\* requests.get) or the request ends with 502.
IngestFetch(ok) ==
    /\ job.op = "ingest"
    /\ job.pc = "fetch"
    /\ job' = IF ok THEN Proceed ELSE Answered(502)
    /\ UNCHANGED <<objects, manifests, jobs, notS3Vars>>

\* upload_file_to_s3 (s3_service.py lines 34-47) as upload_model line 118
\* and ingest_model line 105 call it: the object with its checksum, or a
\* ClientError that ends the request.
PutObject(ok) ==
    /\ job.pc = "put"
    /\ IF ok
          THEN /\ objects' = [objects EXCEPT ![job.file] = job.sum]
               /\ job' = [Proceed EXCEPT !.writes = Append(@, "object")]
          ELSE /\ job' = Answered(500)
               /\ UNCHANGED objects
    /\ UNCHANGED <<manifests, jobs, notS3Vars>>

\* write_manifest (s3_service.py lines 87-102) as upload_model line 128 and
\* ingest_model line 124 call it.
PutManifest(ok) ==
    /\ job.pc = "manifest"
    /\ IF ok
          THEN /\ manifests' = [manifests EXCEPT ![job.file] = job.sum]
               /\ job' = [Proceed EXCEPT !.writes = Append(@, "manifest")]
          ELSE /\ job' = Answered(500)
               /\ UNCHANGED manifests
    /\ UNCHANGED <<objects, jobs, notS3Vars>>

\* GET /download/{filename} (download_model lines 51-54).
DownloadStart(f) ==
    /\ job.pc = "idle"
    /\ jobs < MaxJobs
    /\ jobs' = jobs + 1
    /\ job' = [IdleJob EXCEPT !.op = "download", !.pc = "read", !.file = f]
    /\ UNCHANGED <<objects, manifests, notS3Vars>>

\* download_model lines 56-63 and read_manifest: 404 without a manifest (or
\* when the read fails) and without a checksum in it.
DownloadManifest(ok) ==
    /\ job.op = "download"
    /\ job.pc = "read"
    /\ job' = IF ~ok \/ manifests[job.file] = NoSum
                 THEN Answered(404)
                 ELSE [job EXCEPT !.pc = "head", !.sum = manifests[job.file]]
    /\ UNCHANGED <<objects, manifests, jobs, notS3Vars>>

\* get_s3_object_checksum (s3_service.py lines 50-62): the object's
\* checksum metadata, None when head_object raises a ClientError.
get_s3_object_checksum(f, ok) == IF ok THEN objects[f] ELSE NoSum

\* download_model line 66: is the request refused for its checksum?
Mismatch(head_chk, stored_checksum) ==
    head_chk # NoSum /\ head_chk # stored_checksum

\* download_model lines 65-75: the integrity check, then the presigned URL
\* (500 when generate_presigned_download_url gives None).
DownloadHead(ok, signed) ==
    /\ job.op = "download"
    /\ job.pc = "head"
    /\ LET head_chk == get_s3_object_checksum(job.file, ok)
       IN  job' = IF Mismatch(head_chk, job.sum)
                     THEN [Answered(500) EXCEPT !.head = head_chk]
                  ELSE IF ~signed
                     THEN [Answered(500) EXCEPT !.head = head_chk]
                  ELSE [Answered(200) EXCEPT !.head = head_chk,
                                             !.url = TRUE]
    /\ UNCHANGED <<objects, manifests, jobs, notS3Vars>>

S3Next ==
    \/ \E fault \in UploadInputs, c \in Sums : UploadStart(fault, c)
    \/ UploadCheck
    \/ \E m \in MetricsResults, c \in Sums : IngestStart(m, c)
    \/ IngestGate
    \/ \E ok \in BOOLEAN : IngestFetch(ok)
    \/ \E ok \in BOOLEAN : PutObject(ok)
    \/ \E ok \in BOOLEAN : PutManifest(ok)
    \/ \E f \in FileNames : DownloadStart(f)
    \/ \E ok \in BOOLEAN : DownloadManifest(ok)
    \/ \E ok \in BOOLEAN, signed \in BOOLEAN : DownloadHead(ok, signed)

S3Spec == S3Init /\ [][S3Next]_vars

-----------------------------------------------------------------------------
(* services.artifact_store and the routes of routes_artifacts over it.     *)
(* Names are numbers in the order of Python's string comparison; a source  *)
(* URL is the pair of its owner and its last segment.                      *)

Names == 1..2

\* The name "*" of a query.
Star == 0

ArtifactTypes == {"model", "dataset"}

SourceUrls == {<<"a", 1>>, <<"b", 1>>, <<"a", 2>>}

\* page_size of list_artifacts (50 unless the caller passes it).
MaxPageSize == 2

\* _infer_name_from_url lines 68-82: the last segment of the URL.
infer_name_from_url(url) == url[2]

StoredIds == {i \in Ids : artifacts[i] # NoArtifact}

\* find_existing_artifact lines 110-114.
find_existing_artifact(artifact_type, url) ==
    {i \in StoredIds : artifacts[i].type = artifact_type /\ artifacts[i].url = url}

StoreInit ==
    /\ artifacts = [i \in Ids |-> NoArtifact]
    /\ lastOp = [op |-> "none", status |-> 0, changed |-> FALSE]
    /\ listing = NoListing
    /\ RateIdle
    /\ S3Idle
    /\ MainIdle
    /\ FnIdle
    /\ AuthIdle
    /\ OrchIdle
    /\ ProbeIdle

\* A request changed or kept the registry; a listing in progress is stale
\* once the registry has changed.
Request_Store(op, status, new) ==
    /\ artifacts' = new
    /\ lastOp' = [op |-> op, status |-> status, changed |-> new # artifacts]
    /\ listing' = IF new # artifacts /\ listing.active
                     THEN [NoListing EXCEPT !.active = TRUE, !.stale = TRUE]
                     ELSE listing
    /\ UNCHANGED notStoreVars

\* POST /artifact/{artifact_type} (artifact_create lines 56-75 and
\* create_artifact lines 117-138); id is what generate_artifact_id gives.
artifact_create(artifact_type, url, id) ==
    /\ id \notin StoredIds
    /\ IF find_existing_artifact(artifact_type, url) # {}
          THEN Request_Store("create", 409, artifacts)
          ELSE Request_Store("create", 201,
                   [artifacts EXCEPT ![id] =
                       [name |-> infer_name_from_url(url), id |-> id,
                        type |-> artifact_type, url |-> url]])

\* update_artifact lines 173-187: None (FALSE) for an unknown id, an id
\* mismatch or a type mismatch of the new artifact.
update_artifact_ok(artifact_type, artifact_id, new_artifact) ==
    /\ artifact_id \in StoredIds
    /\ new_artifact.id = artifact_id
    /\ new_artifact.type = artifact_type

\* PUT /artifact/{artifact_type}/{id} (artifact_update_route lines 102-117).
artifact_update_route(artifact_type, id, artifact) ==
    IF artifact.id # id
       THEN Request_Store("update", 400, artifacts)
    ELSE IF ~update_artifact_ok(artifact_type, id, artifact)
       THEN Request_Store("update", 404, artifacts)
    ELSE Request_Store("update", 200, [artifacts EXCEPT ![id] = artifact])

\* DELETE /artifact/{artifact_type}/{id} (artifact_delete_route lines
\* 125-135 and delete_artifact lines 190-202).
artifact_delete_route(artifact_type, id) ==
    IF id \notin StoredIds \/ artifacts[id].type # artifact_type
       THEN Request_Store("delete", 404, artifacts)
       ELSE Request_Store("delete", 200,
                          [artifacts EXCEPT ![id] = NoArtifact])

\* DELETE /reset (reset_store lines 317-323).
reset_store ==
    Request_Store("reset", 200, [i \in Ids |-> NoArtifact])

\* The sort key of _sorted_records line 93.
KeyLess(a, b) == a.name < b.name \/ (a.name = b.name /\ a.id < b.id)

\* _sorted_records lines 85-94: the records of S in ascending key order.
RECURSIVE sorted_records(_)
sorted_records(S) ==
    IF S = {} THEN <<>>
    ELSE LET m == CHOOSE i \in S :
                     \A j \in S \ {i} : KeyLess(artifacts[i], artifacts[j])
         IN  <<artifacts[m]>> \o sorted_records(S \ {m})

\* list_artifacts lines 237-246; a query's types is None (any) or a list.
matches(art, queries) ==
    \E n \in 1..Len(queries) :
        /\ queries[n].name = Star \/ art.name = queries[n].name
        /\ queries[n].any \/ art.type \in queries[n].types

\* list_artifacts lines 265-268: is there a next page?
HasMore_Inclusive(end, n) == end <= n

HasMore(end, n) == end < n

\* filtered[start:end] of a Python list (0-based, end exclusive).
Slice(list, start, end) ==
    SubSeq(list, start + 1, IF end < Len(list) THEN end ELSE Len(list))

\* list_artifacts lines 209-270: the page and next_offset.
list_artifacts(queries, offset, page_size) ==
    IF queries = <<>> THEN [page |-> <<>>, next_offset |-> NoOffset]
    ELSE LET filtered == SelectSeq(sorted_records(StoredIds),
                                   LAMBDA a : matches(a, queries))
             start == IF offset = NoOffset \/ offset < 0 THEN 0 ELSE offset
             end == start + page_size
         IN  [page |-> Slice(filtered, start, end),
              next_offset |-> IF HasMore(end, Len(filtered))
                                 THEN end ELSE NoOffset]

Query(name, any, types) == [name |-> name, any |-> any, types |-> types]

\* The bodies of POST /artifacts a client sends.
QueryLists ==
    {<<Query(Star, TRUE, {})>>,
     <<Query(1, TRUE, {})>>,
     <<Query(Star, FALSE, {"model"})>>,
     <<Query(2, FALSE, {"dataset"})>>,
     <<Query(1, TRUE, {}), Query(Star, FALSE, {"model"})>>,
     <<Query(2, FALSE, {}), Query(2, TRUE, {})>>}

\* A client starts to enumerate with an empty offset.
ListStart(queries, page_size) ==
    /\ listing' = [active |-> TRUE, queries |-> queries,
                   page_size |-> page_size, offset |-> NoOffset,
                   pages |-> <<>>, stale |-> FALSE]
    /\ UNCHANGED <<artifacts, lastOp, notStoreVars>>

ListDone == listing.pages # <<>> /\ listing.offset = NoOffset

\* One call of list_artifacts with the offset the last call returned
\* (artifacts_list_route lines 143-167).
ListPage ==
    /\ listing.active
    /\ ~listing.stale
    /\ ~ListDone
    /\ LET r == list_artifacts(listing.queries, listing.offset,
                               listing.page_size)
       IN  listing' = [listing EXCEPT !.pages = Append(@, r.page),
                                      !.offset = r.next_offset]
    /\ UNCHANGED <<artifacts, lastOp, notStoreVars>>

StoreNext ==
    \/ \E t \in ArtifactTypes, u \in SourceUrls, i \in Ids :
           artifact_create(t, u, i)
    \/ \E t \in ArtifactTypes, i \in Ids, n \in Names, j \in Ids,
          k \in ArtifactTypes, u \in SourceUrls :
           artifact_update_route(t, i, [name |-> n, id |-> j, type |-> k,
                                        url |-> u])
    \/ \E t \in ArtifactTypes, i \in Ids : artifact_delete_route(t, i)
    \/ reset_store
    \/ \E q \in QueryLists, n \in 1..MaxPageSize : ListStart(q, n)
    \/ ListPage

StoreSpec == StoreInit /\ [][StoreNext]_vars

-----------------------------------------------------------------------------
(* Claims *)

Terminated == pc \in {"returned", "raised"}

\* C1: run_all_metrics never raises; it always ends by returning a record.
C1_NeverRaises == pc # "raised"

\* The record field that holds probe q's score, and the one for its latency.
RecordScore(r, q) ==
    CASE q = "bus" -> r.bus_factor
      [] q = "code" -> r.code_quality
      [] q = "data" -> r.dataset_quality
      [] q = "license" -> r.license
      [] q = "ramp" -> r.ramp_up_time
      [] q = "performance" -> r.performance_claims
      [] q = "reproducibility" -> r.reproducibility
      [] q = "reviewedness" -> r.reviewedness
      [] OTHER -> r.size_score.raspberry_pi

RecordLatency(r, q) ==
    CASE q = "bus" -> r.bus_factor_latency
      [] q = "code" -> r.code_quality_latency
      [] q = "data" -> r.dataset_quality_latency
      [] q = "license" -> r.license_latency
      [] q = "ramp" -> r.ramp_up_time_latency
      [] q = "performance" -> r.performance_claims_latency
      [] q = "reproducibility" -> r.reproducibility_latency
      [] q = "reviewedness" -> r.reviewedness_latency
      [] OTHER -> r.size_score_latency

\* C2: when a probe task has raised, the request still ends with a record,
\* and the score and latency of every probe that returned are in it.
C2_OtherResultsSurvive ==
    (Terminated /\ \E p \in ProbeSet : task[p] = "raised") =>
        /\ record.returned
        /\ \A q \in ProbeSet : task[q] = "done" =>
              /\ RecordScore(record, q) = ret[q].score
              /\ RecordLatency(record, q) = ret[q].latency

\* C3: a request is never left waiting without an end: until it has
\* returned or raised, some step of it can still be taken (a probe that
\* does not return is given up when its timeout expires).
C3_WaitIsBounded == Terminated \/ ENABLED Next

\* C6: the aggregation runs only after every submitted probe task has
\* finished: no task is queued, running or writing while lines 91-135 run.
C6_JoinBarrier ==
    pc \in {"aggregate", "returned", "raised"} =>
        \A p \in ProbeSet : task[p] \in Finished

\* C6 witness: the aggregation has run after tasks that wrote their locals.
C6_Witness ==
    /\ Terminated
    /\ \A p \in ProbeSet : task[p] \in Finished
    /\ task["bus"] = "done" /\ locals["bus_score"] # None
    /\ task["reviewedness"] = "done" /\ locals["reviewedness_latency"] # None

\* C7: no process-wide state is modified by more than one probe of a
\* request: at most one probe ever changes the root logger's handler list.
C7_NoSharedWrites == Cardinality(handlerWriters) <= 1

\* C8: no compute lets an exception escape: a compute that was entered
\* ends by returning.
C8_ComputeNeverRaises ==
    \A p \in ProbeSet : ret[p].entered => ret[p].kind # "raise"

\* C9: a compute that is given no URL returns score 0.0 with latency 0.
C9_AbsentUrlGivesZero ==
    \A p \in ProbeSet :
        (UrlFor(p, repo_info) = NoUrl /\ ret[p].entered) => ret[p] = Pair(0, 0)

\* The six metrics of the mean whose input URL is present.
Applicable(info) ==
    {"bus", "ramp", "license", "performance"}
        \cup (IF info.code_url = NoUrl THEN {} ELSE {"code"})
        \cup (IF info.dataset_url = NoUrl THEN {} ELSE {"data"})

RECURSIVE SumScores(_, _)
SumScores(S, l) ==
    IF S = {} THEN 0
    ELSE LET q == CHOOSE x \in S : TRUE
         IN  l[LocalsOf(q)[1]] + SumScores(S \ {q}, l)

C10_ComputeInvokedOnce == out.set => calls = 1

\* The indices of the non-blank lines of the input, in input order.
RECURSIVE NonBlank(_, _)
NonBlank(seq, i) ==
    IF i > Len(seq) THEN <<>>
    ELSE IF seq[i] = "blank" THEN NonBlank(seq, i + 1)
    ELSE <<i>> \o NonBlank(seq, i + 1)

\* C11: main prints exactly one record for each non-blank input line, in
\* input order, each with every key of empty_ndjson(): what is printed is
\* always the start of that sequence, a finished run has printed all of it,
\* and a run that is not finished can go on.
C11_OneRecordPerLine ==
    LET want == NonBlank(input, 1)
    IN  /\ Len(printed) <= Len(want)
        /\ \A i \in 1..Len(printed) :
              /\ printed[i].line = want[i]
              /\ DOMAIN printed[i].rec = NdjsonKeys
        /\ mainPc = "done" => Len(printed) = Len(want)
        /\ mainPc = "done" \/ ENABLED MainNext

\* The distinct contributors of a commit list.
Contributors(commits) == UNION {commits[i] : i \in 1..Len(commits)}

\* C12: BusMetric.compute gives score 0.0 when the commits have at most one
\* distinct contributor (or none at all) and when the fetch fails, and its
\* latency is a non-negative integer.
C12_BusZeroForOneContributor ==
    (result.set /\ arg.f = "bus" /\ arg.url # NoUrl) =>
        /\ (arg.fetch = "error" \/ Cardinality(Contributors(arg.commits)) <= 1)
              => result.val.score = 0
        /\ result.val.kind = "pair"
        /\ result.val.latency \in Nat

\* C12 witness: one contributor with several commits, fetched, scored 0.
C12_Witness ==
    /\ result.set /\ arg.f = "bus" /\ arg.url = Url /\ arg.fetch = "ok"
    /\ Len(arg.commits) >= 2
    /\ Cardinality(Contributors(arg.commits)) = 1
    /\ result.val.score = 0

\* C14: normalize gives every canonical key back unchanged, and a result
\* that is not None is normalized to itself.
C14_NormalizeIdempotent ==
    (result.set /\ arg.f = "normalize") =>
        /\ arg.raw \in CanonicalKeys => result.val = arg.raw
        /\ result.val # NoLicense => normalize(result.val) = result.val

\* C14 witness: an alias that is not canonical was normalized to a key.
C14_Witness ==
    /\ result.set /\ arg.f = "normalize"
    /\ arg.raw \notin CanonicalKeys
    /\ result.val \in CanonicalKeys
    /\ normalize(result.val) = result.val

\* The license the metadata and the README show: the first source, in the
\* order license field, tags, card data, README, that names a known license.
Detected(a) ==
    FirstNorm(<<a.info.license>> \o a.info.tags \o <<a.info.card>>
              \o a.readme.matches \o <<a.readme.line>>)

\* C13: what LicenseMetric.compute returns is 1.0 or 0.0, and it is 1.0
\* exactly when a license was detected and its normalized key is in the
\* caller's allow-set.
C13_LicenseBinary ==
    (result.set /\ arg.f = "license" /\ result.val.kind = "pair") =>
        /\ result.val.score \in {0, 100}
        /\ result.val.score = 100 <=>
              (Detected(arg) # NoLicense /\ Detected(arg) \in arg.allowed)

\* C13 witness: one call with an allowed license scored 1.0; the predicate
\* also needs a license found only in the README.
C13_Witness ==
    /\ result.set /\ arg.f = "license" /\ result.val.kind = "pair"
    /\ extract_from_metadata(arg.info) = NoLicense
    /\ Detected(arg) = <<"mit">>
    /\ <<"mit">> \in arg.allowed
    /\ result.val.score = 100

\* C15: RampMetric.compute returns the pair (0.0, 0) whenever the download
\* count is missing, zero or negative.
C15_RampInvalidGivesZeroPair ==
    (result.set /\ arg.f = "ramp"
        /\ (arg.downloads = None \/ arg.downloads <= 0)) =>
        result.val = Pair(0, 0)

\* C19: both clamp helpers are total with a result in [0,1]: below 0 gives
\* 0, above 1 gives 1, inside the range the value itself, and an input
\* that is not a number gives 0.0 without raising.
C19_ClampTotal ==
    (result.set /\ arg.f \in {"clamp", "clamp01"}) =>
        /\ result.val.t = "float"
        /\ result.val.v \in 0..100
        /\ arg.x.t = "float" =>
              result.val.v = (IF arg.x.v < 0 THEN 0
                              ELSE IF arg.x.v > 100 THEN 100 ELSE arg.x.v)
        /\ (arg.x.t = "None" \/ (arg.x.t = "str" /\ arg.x.v = "NaN-ish")) =>
              result.val.v = 0

\* The tiers of the order that come before tier p.
Before(order, p) ==
    {order[j] : j \in {k \in 1..Len(order) : \A m \in 1..k : order[m] # p}}

\* C16: the size probe selects the first tier of the profile's preference
\* order that fits the memory budget (a GPU profile's order goes from
\* higher to lower precision, a profile without GPU has its quantized
\* tiers first); a profile is infeasible, with score 0.0, exactly when no
\* tier of the full table fits.
C16_FirstFittingTier ==
    (result.set /\ arg.f = "size") =>
        LET cfg == DEFAULT_PROFILES[arg.device]
            order == PrecisionOrder(cfg.supports_gpu)
            p == result.val.prec
            fitting == {q \in Precisions : Fits(arg.params, q, cfg.mem_bytes)}
        IN  /\ p # NoPrecision =>
                  /\ p \in fitting
                  /\ Before(order, p) \cap fitting = {}
            /\ p = NoPrecision <=> fitting = {}
            /\ p = NoPrecision => result.val.score = 0
            /\ cfg.supports_gpu =>
                  \A i, j \in 1..Len(order) :
                      i < j => PRECISION_BYTES_X2(order[i]) > PRECISION_BYTES_X2(order[j])
            /\ ~cfg.supports_gpu =>
                  \A i, j \in 1..Len(order) :
                      (order[i] \in {"int8", "4bit"} /\ order[j] \in {"fp32", "fp16"})
                          => i < j

\* C16 witness: the first tier of the order did not fit and the second did.
C16_Witness ==
    /\ result.set /\ arg.f = "size"
    /\ ~DEFAULT_PROFILES[arg.device].supports_gpu
    /\ ~Fits(arg.params, "int8", DEFAULT_PROFILES[arg.device].mem_bytes)
    /\ result.val.prec = "4bit"
    /\ result.val.score > 0

\* The errors that say a dependency of the snippet is missing.
MissingDependency == {"ModuleNotFoundError", "ImportError"}

\* C17: the reproducibility score is 0.0 without a code block, 1.0 when
\* the run succeeds, 0.5 only when the run fails for a missing dependency,
\* 0.0 for every other failure and for a timeout; the temporary file is
\* gone in every outcome.
C17_ReproducibilityScore ==
    (result.set /\ arg.f = "repro") =>
        /\ result.val.val.score =
              (IF arg.card # "snippet" THEN 0
               ELSE IF arg.run.kind = "success" THEN 100
               ELSE IF arg.run.kind = "failed"
                       /\ arg.run.stderr \in MissingDependency THEN 50
               ELSE 0)
        /\ ~result.val.file

\* The answer is a list of pull requests.
IsList(prs) == prs.kind = "list"

\* The merged pull requests of a list, and those of them with at least one
\* review comment.
Merged(prs) == {i \in 1..Len(prs.items) : prs.items[i].merged}

Reviewed(prs) ==
    {i \in Merged(prs) : prs.items[i].review_url /\ prs.items[i].reviews = "some"}

RECURSIVE Lines(_, _)
\* The changed lines of the pull requests S of a list.
Lines(prs, S) ==
    IF S = {} THEN 0
    ELSE LET i == CHOOSE x \in S : TRUE
         IN  prs.items[i].changes + Lines(prs, S \ {i})

\* A request of the computation failed.
ApiFails(prs) ==
    \/ ~IsList(prs)
    \/ \E i \in Merged(prs) :
          prs.items[i].review_url /\ prs.items[i].reviews = "error"

\* C18: get_reviewed_fraction is the changed lines of the merged pull
\* requests with a review comment over the changed lines of all merged
\* pull requests, in [0,1], and 0.0 without merged changes or when the API
\* fails; compute gives -1.0 when no repository is linked.
C18_ReviewedFraction ==
    (result.set /\ arg.f = "reviewed") =>
        IF ~arg.linked THEN result.val.score = -100
        ELSE IF ApiFails(arg.prs) THEN result.val.score = 0
        ELSE IF Lines(arg.prs, Merged(arg.prs)) = 0 THEN result.val.score = 0
        ELSE /\ result.val.score =
                   (Lines(arg.prs, Reviewed(arg.prs)) * 100)
                       \div Lines(arg.prs, Merged(arg.prs))
             /\ result.val.score \in 0..100

\* C18 witness: a reviewed and an unreviewed merged pull request, and the
\* fraction strictly between 0 and 1.
C18_Witness ==
    /\ result.set /\ arg.f = "reviewed" /\ arg.linked /\ IsList(arg.prs)
    /\ Cardinality(Merged(arg.prs)) = 2
    /\ Cardinality(Reviewed(arg.prs)) = 1
    /\ result.val.score = 25

\* C20: with API keys configured, (a) a call with an unknown key that begins
\* after _MAX_ATTEMPTS failed calls with that key, and answers less than
\* _LOCKOUT_TTL seconds after the call that filled the count began, is
\* rejected with 423; (b) once the lock's time has passed the count starts
\* again from zero, so that the first failure after it leaves a count of 1;
\* (c) a call with a valid key (a key mapped to user info) returns that info.
Answers == {t \in Threads : th[t].pc = "idle" /\ th[t].status # 0}

Unknown(k) == k \notin DOMAIN api_map

Valid(k) == Info(k) # ""

AllIdle == \A t \in Threads : th[t].pc = "idle"

C20_LockoutAfterMaxAttempts ==
    DOMAIN api_map # {} =>
        \A t \in Answers :
            /\ (/\ Unknown(th[t].key)
                /\ th[t].seen >= MAX_ATTEMPTS
                /\ th[t].end < lockedFrom[th[t].key] + LOCKOUT_TTL)
               => th[t].status = 423
            /\ (/\ Unknown(th[t].key)
                /\ AllIdle
                /\ th[t].status = 401
                /\ th[t].seen = 0
                /\ failures[th[t].key] = 1
                /\ MAX_ATTEMPTS > 1)
               => attempts[th[t].key] = 1
            /\ Valid(th[t].key)
               => th[t].status = 200 /\ th[t].info = api_map[th[t].key]
\* C21: when a user's requests to the rate-limited routes come one after
\* the other, a request is admitted exactly when it is among the first
\* RATE_LIMIT_PER_MIN requests of that user in its minute window, whatever
\* the route and whatever the other users sent.
RateAnswers == {t \in Threads : rl[t].pc = "idle" /\ rl[t].status # 0}

C21_FirstLAdmitted ==
    ~overlapped =>
        \A t \in RateAnswers :
            (rl[t].status = 200) <=> (rl[t].seq <= RATE_LIMIT_PER_MIN)

\* C29: in each minute window at most RATE_LIMIT_PER_MIN calls of
\* RateLimiter.allow for one key return True, however the calls of the
\* request threads interleave.
C29_NoLostIncrement ==
    \A u \in Users : \A m \in Minutes : granted[u][m] <= RATE_LIMIT_PER_MIN
\* C22: download_model returns a presigned URL only when the manifest
\* exists, holds a checksum, and the checksum stored with the S3 object was
\* read and equals it; differing checksums are answered 500.
C22_UrlOnlyForConfirmedObject ==
    job.op = "download" /\ job.pc = "idle" =>
        /\ job.url =>
               /\ manifests[job.file] # NoSum
               /\ job.head = manifests[job.file]
        /\ (job.head # NoSum /\ job.head # job.sum) =>
               job.status = 500 /\ ~job.url

\* C25: an upload that upload_model rejected (429, 400, 413) has written
\* nothing to S3, and a request writes a manifest only after it has
\* uploaded the model object.
Rejections == {400, 413, 429}

C25_RejectedUploadWritesNothing ==
    job.op = "upload" =>
        /\ (job.pc = "idle" /\ job.status \in Rejections) =>
               job.writes = <<>>
        /\ \A i \in 1..Len(job.writes) :
               job.writes[i] = "manifest" =>
                   \E j \in 1..(i - 1) : job.writes[j] = "object"

C25_Witness ==
    /\ job.op = "upload"
    /\ job.pc = "idle"
    /\ job.status = 400
    /\ job.input = "traversal"
    /\ objects["m.zip"] # NoSum

\* C30: ingest_model writes to S3 only after run_all_metrics returned a
\* record in which no gating metric is below 0.5; a record with a metric
\* below 0.5 is answered 400 and nothing is written.
C30_IngestGate ==
    job.op = "ingest" =>
        /\ job.writes # <<>> =>
               /\ job.input # "raised"
               /\ \A k \in ReturnedKeys : MetricsGet(job.input, k) >= 50
        /\ (job.pc = "idle" /\ job.input \in ReturnedKeys) =>
               job.status = 400 /\ job.writes = <<>>

C30_Witness ==
    /\ job.op = "ingest"
    /\ job.pc = "idle"
    /\ job.input = "license"
    /\ job.status = 400
    /\ objects["org__m.zip"] # NoSum
\* C23: following next_offset from the empty offset over an unchanged store,
\* the pages of list_artifacts hold every matching artifact exactly once,
\* in ascending (name, id) order, at most page_size per page, and the empty
\* next_offset comes exactly with the page that holds the last match.
RECURSIVE Concat(_)
Concat(pages) ==
    IF pages = <<>> THEN <<>> ELSE Head(pages) \o Concat(Tail(pages))

Matching == {i \in StoredIds : matches(artifacts[i], listing.queries)}

C23_ListArtifactsPages ==
    (listing.active /\ ~listing.stale) =>
        LET got == Concat(listing.pages)
        IN  /\ \A n \in 1..Len(listing.pages) :
                   Len(listing.pages[n]) <= listing.page_size
            /\ \A n \in 1..Len(got) :
                   got[n].id \in Matching /\ got[n] = artifacts[got[n].id]
            /\ \A n \in 1..Len(got) : \A k \in 1..(n - 1) :
                   KeyLess(got[k], got[n])
            /\ ListDone => {got[n].id : n \in 1..Len(got)} = Matching
            /\ (listing.pages # <<>> /\ Matching # {}) =>
                   (ListDone <=> Len(got) = Cardinality(Matching))

C23_Witness ==
    /\ listing.active
    /\ ~listing.stale
    /\ ListDone
    /\ Len(listing.pages) = 2
    /\ Cardinality(Matching) = 2
    /\ listing.page_size = 1

\* C28: no two stored artifacts have the same type and the same source
\* URL, every record is stored under its own metadata.id, and a failed
\* update or delete (400, 404) leaves the store unchanged.
C28_StoreInvariants ==
    /\ \A i \in StoredIds : \A j \in StoredIds :
           (artifacts[i].type = artifacts[j].type
            /\ artifacts[i].url = artifacts[j].url) => i = j
    /\ \A i \in StoredIds : artifacts[i].id = i
    /\ (lastOp.op \in {"update", "delete"} /\ lastOp.status \in {400, 404})
           => ~lastOp.changed
\* C24: TreeScoreMetric.compute never raises, and gives score 0.0 for a
\* model whose registry directory has no config.json.
C24_TreeScoreMissingConfig ==
    (result.set /\ arg.f = "treescore") =>
        /\ result.val.kind = "pair"
        /\ (isdir(arg.registry, arg.model_dir)
            /\ ConfigAt(arg.registry, arg.model_dir) = "absent")
           => result.val.score = 0

\* C26: the chain get_lineage returns holds each model (directory) at most
\* once, ends with the queried model, and every entry after the first is
\* preceded by its parent; this also with references that form a cycle or
\* point to the model itself.
C26_LineageChain ==
    (result.set /\ arg.f = "lineage" /\ ~result.val.raised) =>
        LET chain == result.val.chain
        IN  /\ chain # <<>>
            /\ chain[Len(chain)] = arg.model_dir
            /\ \A n \in 2..Len(chain) :
                   ParentOf(arg.registry, chain[n]) = chain[n - 1]
            /\ \A n \in 1..Len(chain) : \A k \in 1..Len(chain) :
                   (DirOf(chain[n]) = DirOf(chain[k])) => n = k

\* The license a LicenseMetric.compute call detects: the metadata, then
\* the README.
DetectedLicense(info, readme) ==
    IF extract_from_metadata(info) # NoLicense THEN extract_from_metadata(info)
    ELSE extract_from_readme(readme)

\* C27: when the probe runner calls the license metric with its default
\* allow list, the metric is evaluated on the model URL, and a model whose
\* detected license normalizes to one of the listed licenses gets license
\* score 1.0.
C27_ProbeLicenseDefaultAllowed ==
    (arg.f = "probe_license" /\ result.set) =>
        /\ result.val.on = "model_url"
        /\ (/\ arg.fetch = "ok"
            /\ DetectedLicense(arg.info, arg.readme)
                   \in {normalize(a) : a \in DEFAULT_ALLOWED})
           => result.val.score = 100

====
